---- MODULE Spec2Model ----
(***************************************************************************)
(* A model of the AI text adventure (src/main.py, src/health_manager.py,   *)
(* src/karma_manager.py): the GameState record, the Health and Karma       *)
(* Evaluators, the Response Parser and the turn pipeline of class Game.    *)
(*                                                                         *)
(* Text is modelled as a sequence of atoms.  An atom is a piece of text    *)
(* that the code never looks inside: a label ("HEALTH_CHANGE",             *)
(* "***health:"), one digit, one punctuation or whitespace character, or   *)
(* one word.  The code's string operations (strip, split, startswith,      *)
(* lower, int, re.search) are defined on these sequences the way Python    *)
(* defines them on characters.                                             *)
(*                                                                         *)
(* A call of the LLM gateway is an input of the action that makes it: the  *)
(* reply is drawn from a set of sample replies, or the call raises.        *)
(***************************************************************************)
EXTENDS Integers, Sequences, FiniteSets, TLC

VARIABLES
    pc,           \* position of the foreground loop (Game.start_new_game)
    state,        \* Game.state: NoState or the GameState record
    frame,        \* locals of the running Game._process_turn
    ui_messages,  \* GameUI.messages, the last max_messages entries
    probe,        \* argument and result of a function applied on its own
    images        \* image generation: the flags of Game and GameUI, the
                  \* worker threads that run

vars == <<pc, state, frame, ui_messages, probe, images>>

(***************************************************************************)
(* Bounds of the model.                                                    *)
(***************************************************************************)
\* no new turn is submitted once state.turn has reached MaxTurn
MaxTurn == 3
\* the model's GameUI.max_messages (200 in the code)
MaxMessages == 1
\* image worker threads alive at one time
MaxWorkers == 2

(***************************************************************************)
(* Python string operations on atom sequences.                             *)
(***************************************************************************)
Whitespace == {" ", "\n", "\t"}

Digit == {"0", "1", "2", "3", "4", "5", "6", "7", "8", "9"}

DigitValue(c) ==
    CASE c = "0" -> 0 [] c = "1" -> 1 [] c = "2" -> 2 [] c = "3" -> 3
      [] c = "4" -> 4 [] c = "5" -> 5 [] c = "6" -> 6 [] c = "7" -> 7
      [] c = "8" -> 8 [] c = "9" -> 9

DigitChar(n) ==
    CASE n = 0 -> "0" [] n = 1 -> "1" [] n = 2 -> "2" [] n = 3 -> "3"
      [] n = 4 -> "4" [] n = 5 -> "5" [] n = 6 -> "6" [] n = 7 -> "7"
      [] n = 8 -> "8" [] n = 9 -> "9"

RECURSIVE lstrip(_)
lstrip(s) ==
    IF s # <<>> /\ Head(s) \in Whitespace THEN lstrip(Tail(s)) ELSE s

RECURSIVE rstrip(_)
rstrip(s) ==
    IF s # <<>> /\ s[Len(s)] \in Whitespace
    THEN rstrip(SubSeq(s, 1, Len(s) - 1))
    ELSE s

\* str.strip()
strip(s) == rstrip(lstrip(s))

\* the first index of atom a in s, 0 when there is none (str.find + 1)
find(s, a) ==
    IF \E i \in 1..Len(s) : s[i] = a
    THEN CHOOSE i \in 1..Len(s) : s[i] = a /\ \A j \in 1..(i - 1) : s[j] # a
    ELSE 0

\* str.split(sep) for a one-atom separator
RECURSIVE split(_, _)
split(s, sep) ==
    LET i == find(s, sep)
    IN  IF i = 0
        THEN <<s>>
        ELSE <<SubSeq(s, 1, i - 1)>> \o split(SubSeq(s, i + 1, Len(s)), sep)

\* str.startswith(prefix)
startswith(s, prefix) ==
    Len(s) >= Len(prefix) /\ SubSeq(s, 1, Len(prefix)) = prefix

\* str.lower() of one atom: the atoms that have upper-case letters
LowerAtom(a) ==
    CASE a = "True" -> "true"
      [] a = "TRUE" -> "true"
      [] a = "False" -> "false"
      [] a = "FALSE" -> "false"
      [] a = "YES" -> "yes"
      [] a = "Rope" -> "rope"
      [] a = "Attack" -> "attack"
      [] a = "T" -> "t"
      [] OTHER -> a

\* str.lower()
lower(s) == [i \in 1..Len(s) |-> LowerAtom(s[i])]

\* the value of a non-empty run of decimal digits
RECURSIVE DigitsValue(_)
DigitsValue(s) ==
    IF Len(s) = 1
    THEN DigitValue(s[1])
    ELSE 10 * DigitsValue(SubSeq(s, 1, Len(s) - 1)) + DigitValue(s[Len(s)])

IsDigits(s) == s # <<>> /\ \A i \in 1..Len(s) : s[i] \in Digit

\* int(s): [ok |-> FALSE] stands for ValueError
int(s) ==
    LET t    == strip(s)
        sign == IF t # <<>> /\ t[1] \in {"-", "+"} THEN t[1] ELSE ""
        body == IF sign = "" THEN t ELSE Tail(t)
    IN  IF IsDigits(body)
        THEN [ok |-> TRUE,
              val |-> IF sign = "-" THEN 0 - DigitsValue(body)
                                    ELSE DigitsValue(body)]
        ELSE [ok |-> FALSE, val |-> 0]

\* str(n) for an integer n
RECURSIVE NatStr(_)
NatStr(n) ==
    IF n < 10 THEN <<DigitChar(n)>>
    ELSE NatStr(n \div 10) \o <<DigitChar(n % 10)>>

str(n) == IF n < 0 THEN <<"-">> \o NatStr(0 - n) ELSE NatStr(n)

\* the lines of s that start with prefix, in order
LinesStarting(s, prefix) ==
    SelectSeq(split(s, "\n"), LAMBDA line : startswith(line, prefix))

max(a, b) == IF a >= b THEN a ELSE b

min(a, b) == IF a <= b THEN a ELSE b

(***************************************************************************)
(* The LLM gateway: llm.invoke(prompt) returns a reply or raises.          *)
(***************************************************************************)
\* the call raised (network error, timeout, API error)
Raised == [raised |-> TRUE, has_content |-> FALSE, content |-> <<>>]

\* the call returned a message whose content is text
Reply(text) == [raised |-> FALSE, has_content |-> TRUE, content |-> text]

\* the call returned an object that has no content attribute
NoContent == [raised |-> FALSE, has_content |-> FALSE, content |-> <<>>]

\* a content that is not a string
NotTextContent == <<"<not a string>">>

\* the call returned a message whose content is not a string (None, a list)
NotText == [raised |-> FALSE, has_content |-> TRUE, content |-> NotTextContent]

(***************************************************************************)
(* HealthManager (src/health_manager.py)                                   *)
(***************************************************************************)
\* a variant of the fallback that reports a fatal action
HealthFallbackFatal ==
    [health_change |-> -100,
     explanation |-> <<"Unable to evaluate health change for this action.">>,
     is_fatal |-> TRUE]

HealthFallback ==
    [health_change |-> 0,
     explanation |-> <<"Unable to evaluate health change for this action.">>,
     is_fatal |-> FALSE]

\* a variant that clamps the number and ignores the fatal flag
bound_health_change_clamp_only(is_fatal, health_change) ==
    max(-50, min(25, health_change))

\* "Ensure health change is within bounds"
bound_health_change(is_fatal, health_change) ==
    IF is_fatal THEN -100 ELSE max(-50, min(25, health_change))

\* evaluate_health_change, from the result r of llm.invoke(prompt) on
evaluate_health_change(r) ==
    IF r.raised \/ ~r.has_content THEN HealthFallback
    ELSE
    LET response == strip(r.content)
        hl == LinesStarting(response, <<"HEALTH_CHANGE", ":">>)
        el == LinesStarting(response, <<"EXPLANATION", ":">>)
        fl == LinesStarting(response, <<"IS_FATAL", ":">>)
    IN  IF hl = <<>> \/ el = <<>> \/ fl = <<>> THEN HealthFallback
        ELSE
        LET n == int(strip(split(hl[1], ":")[2]))
            is_fatal == lower(strip(split(fl[1], ":")[2])) = <<"true">>
        IN  IF ~n.ok THEN HealthFallback
            ELSE [health_change |-> bound_health_change(is_fatal, n.val),
                  explanation |-> strip(split(el[1], ":")[2]),
                  is_fatal |-> is_fatal]

\* a variant that adds the change and does not bound the sum
calculate_final_health_unclamped(current_health, health_change) ==
    current_health + health_change

calculate_final_health(current_health, health_change) ==
    LET new_health == current_health + health_change
    IN  max(0, min(100, new_health))

\* is s2 a contiguous part of s ("keyword in action")
contains(s, s2) ==
    \E i \in 0..(Len(s) - Len(s2)) : SubSeq(s, i + 1, i + Len(s2)) = s2

HEALING_KEYWORDS ==
    {<<"heal">>, <<"rest">>, <<"sleep">>, <<"bandage">>, <<"medicine">>,
     <<"potion">>, <<"cure">>, <<"treat">>, <<"recover">>, <<"meditate">>,
     <<"bind", " ", "wound">>, <<"patch">>, <<"doctor">>, <<"medical">>,
     <<"first", " ", "aid">>, <<"healing">>, <<"health">>, <<"restore">>}

is_healing_attempt(action) ==
    \E keyword \in HEALING_KEYWORDS : contains(lower(action), keyword)

(***************************************************************************)
(* KarmaManager (src/karma_manager.py)                                     *)
(***************************************************************************)
KarmaFallback ==
    [karma_change |-> 0,
     explanation |-> <<"Unable to evaluate karma change for this action.">>]

\* a variant that enforces the range the prompt names, -15 to +15
bound_karma_change_as_prompted(karma_change) ==
    max(-15, min(15, karma_change))

\* "Ensure karma change is within bounds"
bound_karma_change(karma_change) == max(-10, min(10, karma_change))

\* evaluate_karma_change, from the result r of llm.invoke(prompt) on
evaluate_karma_change(r) ==
    IF r.raised \/ ~r.has_content THEN KarmaFallback
    ELSE
    LET response == strip(r.content)
        kl == LinesStarting(response, <<"KARMA_CHANGE", ":">>)
        el == LinesStarting(response, <<"EXPLANATION", ":">>)
    IN  IF kl = <<>> \/ el = <<>> THEN KarmaFallback
        ELSE
        LET n == int(strip(split(kl[1], ":")[2]))
        IN  IF ~n.ok THEN KarmaFallback
            ELSE [karma_change |-> bound_karma_change(n.val),
                  explanation |-> strip(split(el[1], ":")[2])]

\* a variant that adds the change and does not bound the sum
calculate_final_karma_unclamped(current_karma, karma_change) ==
    current_karma + karma_change

\* a variant that bounds karma to the range of health
calculate_final_karma_floor_zero(current_karma, karma_change) ==
    LET new_karma == current_karma + karma_change
    IN  max(0, min(100, new_karma))

calculate_final_karma(current_karma, karma_change) ==
    LET new_karma == current_karma + karma_change
    IN  max(-100, min(100, new_karma))

(***************************************************************************)
(* GameState (src/main.py)                                                 *)
(***************************************************************************)
\* Game.state before the name is entered (None)
NoState == [name |-> "None"]

\* a variant of the reset that leaves health as it is
reset_life_values_keep_health(st) ==
    [st EXCEPT !.inventory = <<>>,
               !.turn = 0,
               !.last_gamemaster_message = <<>>,
               !.last_player_message = <<>>,
               !.turn_summary = <<>>,
               !.image_prompt = <<>>,
               !.current_image = "None"]

\* the fields reset_life_values assigns
reset_life_values(st) ==
    [st EXCEPT !.health = 100,
               !.inventory = <<>>,
               !.turn = 0,
               !.last_gamemaster_message = <<>>,
               !.last_player_message = <<>>,
               !.turn_summary = <<>>,
               !.image_prompt = <<>>,
               !.current_image = "None"]

\* GameState(name)
GameState(name) ==
    reset_life_values(
        [name |-> name, karma |-> 0, chosen_setting |-> <<>>,
         health |-> 0, inventory |-> <<>>, turn |-> 0,
         last_gamemaster_message |-> <<>>, last_player_message |-> <<>>,
         turn_summary |-> <<>>, image_prompt |-> <<>>,
         current_image |-> "None"])

(***************************************************************************)
(* ResponseParser (src/main.py)                                            *)
(***************************************************************************)
NoMatch == [matched |-> FALSE, group |-> <<>>]

Match(g) == [matched |-> TRUE, group |-> g]

\* the longest prefix of s made of digits (a greedy \d+ or \d*)
RECURSIVE leading_digits(_)
leading_digits(s) ==
    IF s # <<>> /\ Head(s) \in Digit
    THEN <<Head(s)>> \o leading_digits(Tail(s))
    ELSE <<>>

\* a variant for a greedy (.*) under re.DOTALL: all of s
up_to_end(s) == s

\* the part of s before its first newline (a lazy (.*?) up to \n or $)
up_to_newline(s) ==
    LET i == find(s, "\n")
    IN  IF i = 0 THEN s ELSE SubSeq(s, 1, i - 1)

\* re.search(r'START_LLM_GENERATED_CONTENT:(.*?)END_LLM_GENERATED_CONTENT',
\*           text, re.DOTALL)
search_content(text) ==
    LET i == find(text, "START_LLM_GENERATED_CONTENT:")
        rest == SubSeq(text, i + 1, Len(text))
        j == find(rest, "END_LLM_GENERATED_CONTENT")
    IN  IF i = 0 \/ j = 0 THEN NoMatch ELSE Match(SubSeq(rest, 1, j - 1))

\* re.search(label + r'\s*(.*?)(?:\n|$)', content, re.DOTALL): the greedy \s*
\* runs over every whitespace character after the label, newlines included
search_text(content, label) ==
    LET i == find(content, label)
    IN  IF i = 0 THEN NoMatch
        ELSE Match(up_to_newline(lstrip(SubSeq(content, i + 1, Len(content)))))

\* re.search(label + r'\s*(\d+)', ...) and, signed, label + r'\s*(-?\d+)':
\* the first place where the label is followed by a number
RECURSIVE search_number(_, _, _)
search_number(content, label, signed) ==
    LET i == find(content, label)
        after == SubSeq(content, i + 1, Len(content))
        rest == lstrip(after)
        minus == signed /\ rest # <<>> /\ Head(rest) = "-"
        digits == leading_digits(IF minus THEN Tail(rest) ELSE rest)
    IN  IF i = 0 THEN NoMatch
        ELSE IF digits # <<>>
             THEN Match(IF minus THEN <<"-">> \o digits ELSE digits)
             ELSE search_number(after, label, signed)

\* ','.join(items)
RECURSIVE join(_, _)
join(items, sep) ==
    IF items = <<>> THEN <<>>
    ELSE IF Len(items) = 1 THEN items[1]
    ELSE items[1] \o <<sep>> \o join(Tail(items), sep)

_get_default_value(key, st) ==
    CASE key = "health" -> str(st.health)
      [] key = "inventory" -> join(st.inventory, ",")
      [] key = "karma" -> str(st.karma)
      [] key = "gamemaster_message" ->
            <<"I'm having trouble understanding what happened. Please try again.">>
      [] key = "image_prompt" -> <<"A mysterious scene">>
      [] key = "turn_summary" ->
            IF st.turn_summary # <<>> THEN st.turn_summary
            ELSE <<"The adventure begins...">>

_get_default_response(st) ==
    [health |-> st.health,
     inventory |-> st.inventory,
     karma |-> st.karma,
     gamemaster_message |->
        <<"I apologize, but I'm having trouble processing what happened. Please try your action again.">>,
     image_prompt |-> <<"A mysterious scene">>,
     turn_summary |-> IF st.turn_summary # <<>> THEN st.turn_summary
                      ELSE <<"The adventure begins...">>]

\* a variant that answers a malformed reply with the default response
_handle_malformed_response_apology(content, st) == _get_default_response(st)

_handle_malformed_response(content, st) ==
    LET response == _get_default_response(st)
    IN  IF content # <<>>
        THEN [response EXCEPT
                !.gamemaster_message = strip(content),
                !.turn_summary = st.turn_summary \o <<"\n", "Turn", " ">>
                                 \o str(st.turn + 1) \o <<":", " ">>
                                 \o st.last_player_message]
        ELSE response

\* one entry of the patterns loop: the stripped group, or the field's default
extract_component(content, key, m, st) ==
    IF m.matched THEN strip(m.group) ELSE _get_default_value(key, st)

_extract_components(content, st) ==
    [health |-> extract_component(content, "health",
                    search_number(content, "***health:", FALSE), st),
     inventory |-> extract_component(content, "inventory",
                    search_text(content, "***inventory:"), st),
     karma |-> extract_component(content, "karma",
                    search_number(content, "***karma:", TRUE), st),
     gamemaster_message |-> extract_component(content, "gamemaster_message",
                    search_text(content, "***gamemaster_message:"), st),
     image_prompt |-> extract_component(content, "image_prompt",
                    search_text(content, "***image_prompt:"), st),
     turn_summary |-> extract_component(content, "turn_summary",
                    search_text(content, "***turn_summary:"), st)]

\* [x for x in items if not (x in seen or seen.add(x))]
RECURSIVE first_seen(_, _)
first_seen(items, seen) ==
    IF items = <<>> THEN <<>>
    ELSE IF Head(items) \in seen THEN first_seen(Tail(items), seen)
    ELSE <<Head(items)>> \o first_seen(Tail(items), seen \cup {Head(items)})

\* a variant of the inventory clean-up that keeps repeated items
clean_inventory_keep_repeats(inventory_str) ==
    LET cleaned == SelectSeq(inventory_str,
                        LAMBDA a : a \notin {"[", "]", "'", "\"", "\\"})
        parts == split(cleaned, ",")
        items == [i \in 1..Len(parts) |-> strip(parts[i])]
    IN  SelectSeq(items, LAMBDA item : item # <<>>)

\* "Clean up inventory"
clean_inventory(inventory_str) ==
    LET cleaned == SelectSeq(inventory_str,
                        LAMBDA a : a \notin {"[", "]", "'", "\"", "\\"})
        parts == split(cleaned, ",")
        items == [i \in 1..Len(parts) |-> strip(parts[i])]
        inventory_items ==
            SelectSeq(items, LAMBDA item :
                item # <<>> /\ ~startswith(item, <<"[">>)
                            /\ ~startswith(item, <<"]">>))
    IN  first_seen(inventory_items, {})

\* a variant that converts the numbers and does not bound them
_clean_and_validate_results_unclamped(results, st) ==
    LET h == int(results.health)
        k == int(results.karma)
    IN  IF h.ok /\ k.ok
        THEN [results EXCEPT
                !.health = h.val,
                !.karma = k.val,
                !.inventory = clean_inventory(results.inventory)]
        ELSE [results EXCEPT
                !.health = st.health,
                !.karma = st.karma,
                !.inventory = st.inventory]

_clean_and_validate_results(results, st) ==
    LET h == int(results.health)
        k == int(results.karma)
    IN  IF h.ok /\ k.ok
        THEN [results EXCEPT
                !.health = min(100, max(0, h.val)),
                !.karma = min(100, max(-100, k.val)),
                !.inventory = clean_inventory(results.inventory)]
        ELSE [results EXCEPT
                !.health = st.health,
                !.karma = st.karma,
                !.inventory = st.inventory]

\* parse_response, for the object r that llm.invoke returned; re.search
\* raises TypeError for a content that is no string, and the except of
\* parse_response returns the default response
parse_response(r, st) ==
    IF ~r.has_content THEN _get_default_response(st)
    ELSE IF r.content = NotTextContent THEN _get_default_response(st)
    ELSE
    LET content_match == search_content(r.content)
    IN  IF ~content_match.matched
        THEN _handle_malformed_response(r.content, st)
        ELSE _clean_and_validate_results(
                 _extract_components(content_match.group, st), st)

(***************************************************************************)
(* StoryGenerator and TurbulenceSystem (src/main.py)                       *)
(***************************************************************************)
ElementTypes == {"DIALOGUE", "EXPLORATION", "ITEM", "ACTION"}

any_word_in(words, action_lower) ==
    \E word \in words : contains(action_lower, <<word>>)

\* a variant that tries the categories in the order of the random.choice list
element_type_of_list_order(last_player_message, choice) ==
    LET action_lower == lower(last_player_message)
    IN  IF any_word_in({"talk", "ask", "speak", "say", "tell", "respond"},
                       action_lower)
        THEN "DIALOGUE"
        ELSE IF any_word_in({"open", "enter", "go", "walk", "move", "explore",
                             "look", "search"}, action_lower)
        THEN "EXPLORATION"
        ELSE IF any_word_in({"use", "take", "grab", "pick", "drop", "give",
                             "hold", "wear"}, action_lower)
        THEN "ITEM"
        ELSE IF any_word_in({"attack", "fight", "punch", "shoot", "defend",
                             "dodge", "run"}, action_lower)
        THEN "ACTION"
        ELSE choice

\* the element type generate_narrative_element picks; choice is the value
\* random.choice returns
element_type_of(last_player_message, choice) ==
    LET action_lower == lower(last_player_message)
    IN  IF any_word_in({"talk", "ask", "speak", "say", "tell", "respond"},
                       action_lower)
        THEN "DIALOGUE"
        ELSE IF any_word_in({"attack", "fight", "punch", "shoot", "defend",
                             "dodge", "run"}, action_lower)
        THEN "ACTION"
        ELSE IF any_word_in({"open", "enter", "go", "walk", "move", "explore",
                             "look", "search"}, action_lower)
        THEN "EXPLORATION"
        ELSE IF any_word_in({"use", "take", "grab", "pick", "drop", "give",
                             "hold", "wear"}, action_lower)
        THEN "ITEM"
        ELSE choice

\* the chance of a hazard, in percent
turbulence_chance(turn) ==
    IF turn <= 5 THEN 10 ELSE IF turn <= 10 THEN 20 ELSE 30

\* a variant that spares the first turn only
should_add_turbulence_after_one(turn, draw) ==
    IF turn < 1 THEN FALSE ELSE draw < turbulence_chance(turn)

\* should_add_turbulence; draw is random.random() in percent
should_add_turbulence(turn, draw) ==
    IF turn < 2 THEN FALSE ELSE draw < turbulence_chance(turn)

\* str.upper() of one atom
UpperAtom(a) ==
    CASE a = "yes" -> "YES"
      [] a = "Yes" -> "YES"
      [] a = "no" -> "NO"
      [] OTHER -> a

upper(s) == [i \in 1..Len(s) |-> UpperAtom(s[i])]

\* a variant whose karma factor is scaled by 0.80: the chance reaches 0
lethal_chance_to_zero(karma) ==
    LET karma_factor_200 == karma + 100
    IN  640 - (16 * karma_factor_200) \div 5

\* generate_turbulence_event: lethal_chance = 0.80 - karma_factor * 0.75 with
\* karma_factor = (karma + 100) / 200, counted in units of 1/800 (0.80 is
\* 640, 0.75 / 200 is 3)
lethal_chance(karma) ==
    LET karma_factor_200 == karma + 100
    IN  640 - 3 * karma_factor_200

\* the verdict _determine_lethality reads from the reply text
lethality_verdict(content) == upper(strip(content)) = <<"YES">>

(***************************************************************************)
(* GameUI.messages (src/game_ui.py)                                        *)
(***************************************************************************)
\* append one Message and keep only the last max_messages; the text of one
\* call is one entry (the code adds one entry for each wrapped line of it)
add_message(messages, type, text) ==
    LET all == Append(messages, [type |-> type, text |-> text])
    IN  IF Len(all) > MaxMessages
        THEN SubSeq(all, Len(all) - MaxMessages + 1, Len(all))
        ELSE all

\* add_system_message, called once for each text of texts in order
RECURSIVE add_system_messages(_, _)
add_system_messages(messages, texts) ==
    IF texts = <<>> THEN messages
    ELSE add_system_messages(add_message(messages, "SYSTEM", Head(texts)),
                             Tail(texts))

add_player_message(messages, text) == add_message(messages, "PLAYER", text)

add_gamemaster_message(messages, text) ==
    add_message(messages, "GAMEMASTER", text)

(***************************************************************************)
(* Sample inputs: what the player types, what the settings catalog holds   *)
(* and what the LLM gateway answers to each kind of call.                  *)
(***************************************************************************)
Names == {<<"Ann">>}

PlayerActions == {<<"attack", " ", "the", " ", "guard">>}

\* random.random() in percent
RandomDraws == {5, 15, 95}

\* the outcome of reading karma_situations.txt for a category: the file is
\* not part of the sources, open() raises and the default setting is used
CatalogOutcomes == {"unavailable"}

\* the settings a sample catalog lists under a category
SampleSettings(category) == {<<"a realm of ", category>>}

TextReplies(texts) == {Reply(t) : t \in texts} \cup {Raised, NoContent}

HealthReply(number, fatal) ==
    Reply(<<"HEALTH_CHANGE", ":", " ">> \o number \o
          <<"\n", "EXPLANATION", ":", " ", "You are hurt.", "\n",
            "IS_FATAL", ":", " ">> \o fatal)

TurnHealthReplies ==
    {HealthReply(<<"4", "0">>, <<"false">>),
     HealthReply(<<"-", "8", "0">>, <<"False">>),
     HealthReply(<<"1", "0">>, <<"True">>),
     Reply(<<"I", " ", "cannot", " ", "say">>),
     Raised}

KarmaReply(number) ==
    Reply(<<"KARMA_CHANGE", ":", " ">> \o number \o
          <<"\n", "EXPLANATION", ":", " ", "You chose.">>)

TurnKarmaReplies ==
    {KarmaReply(<<"2", "0">>),
     KarmaReply(<<"-", "1", "5">>),
     KarmaReply(<<"n", "o", "n", "e">>),
     Raised}

NarrativeReplies == TextReplies({<<"A guard responds.">>})

LethalityReplies == TextReplies({<<"YES">>, <<"NO">>, <<" ", "yes", "\n">>})

EventReplies == TextReplies({<<"The floor gives way.">>})

SituationReplies == TextReplies({<<"You wake in a cell.">>})

ItemReplies ==
    TextReplies({<<" ", "rope", ",", " ", "rope", ",", "key", "\n">>,
                 <<" ", ",", " ">>})

TurnBlock(health, inventory, karma) ==
    <<"START_LLM_GENERATED_CONTENT:", "\n", "***health:", " ">> \o health \o
    <<"\n", "***inventory:", " ">> \o inventory \o
    <<"\n", "***karma:", " ">> \o karma \o
    <<"\n", "***gamemaster_message:", " ", "You proceed.",
      "\n", "***image_prompt:", " ", "A dark cave.",
      "\n", "***turn_summary:", " ", "Entered cave.",
      "\n", "END_LLM_GENERATED_CONTENT", "\n">>

TurnReplies ==
    {Reply(TurnBlock(<<"8", "0">>, <<"sword", ",", " ", "rope">>,
                     <<"-", "5">>)),
     Reply(TurnBlock(<<"2", "5", "0">>, <<"sword", ",", " ", "rope">>,
                     <<"-", "3", "0", "0">>)),
     Reply(<<" ", "You proceed.", "\n">>),
     Raised}

(***************************************************************************)
(* Game (src/main.py)                                                      *)
(***************************************************************************)
NoneText == <<"<None>">>

NoTurbulence == [present |-> FALSE, event |-> <<>>, is_lethal |-> FALSE]

\* the locals of _process_turn before it runs
NoFrame ==
    [health_change |-> 0, health_explanation |-> <<>>, is_fatal |-> FALSE,
     old_health |-> 0, karma_change |-> 0, old_karma |-> 0,
     narrative_element |-> [type |-> "None", content |-> <<>>],
     turbulence_result |-> NoTurbulence,
     parsed_response |-> [health |-> 0, karma |-> 0],
     saved_karma |-> 0, saved_health |-> 0]

\* a variant with the band limits one higher
karma_category_shifted(karma) ==
    IF karma > 76 THEN "VERY_POSITIVE"
    ELSE IF karma > 36 THEN "POSITIVE"
    ELSE IF karma > 1 THEN "SLIGHTLY_POSITIVE"
    ELSE IF karma = 1 THEN "NEUTRAL"
    ELSE IF karma >= -34 THEN "SLIGHTLY_NEGATIVE"
    ELSE IF karma >= -74 THEN "NEGATIVE"
    ELSE "VERY_NEGATIVE"

\* the category of _load_karma_based_setting
karma_category(karma) ==
    IF karma > 75 THEN "VERY_POSITIVE"
    ELSE IF karma > 35 THEN "POSITIVE"
    ELSE IF karma > 0 THEN "SLIGHTLY_POSITIVE"
    ELSE IF karma = 0 THEN "NEUTRAL"
    ELSE IF karma >= -35 THEN "SLIGHTLY_NEGATIVE"
    ELSE IF karma >= -75 THEN "NEGATIVE"
    ELSE "VERY_NEGATIVE"

Range(f) == {f[i] : i \in DOMAIN f}

(***************************************************************************)
(* Image generation (src/main.py)                                          *)
(***************************************************************************)
\* Game.__init__ and GameUI.__init__: the image flags, and no worker thread.
\* generating counts the threads inside generate_image, finishing those
\* between the end of the try body and the finally block
NoImages(enabled) ==
    [image_generation_enabled |-> enabled,
     is_generating_image |-> FALSE,
     is_loading_image |-> FALSE,
     ui_current_image |-> "None",
     generating |-> 0,
     finishing |-> 0]

\* the threads of _generate_image_thread that were started and have not
\* returned
running_workers(im) == im.generating + im.finishing

\* _generate_scene_image: the flags it sets and the thread it starts
_generate_scene_image(im) ==
    IF ~im.image_generation_enabled
    THEN im
    ELSE [im EXCEPT !.is_loading_image = TRUE,
                    !.is_generating_image = TRUE,
                    !.generating = @ + 1]

\* the message of _generate_scene_image
generating_notice(im) ==
    IF im.image_generation_enabled
    THEN << <<"Generating scene image...">> >>
    ELSE <<>>

\* the end of _start_new_situation: the image of a new life is requested
\* whenever image generation is enabled
initial_image_request(im) ==
    im.image_generation_enabled

\* the end of _update_game_state: the image of a turn is requested when no
\* request is flagged as under way
turn_image_request(im, st) ==
    /\ im.image_generation_enabled
    /\ st.image_prompt # <<>>
    /\ ~im.is_generating_image

\* the exception of a failed LLM call is caught nowhere: it unwinds
\* _process_turn (its locals are gone) and start_new_game, and the process ends
Crash ==
    /\ pc' = "Crashed"
    /\ frame' = NoFrame
    /\ UNCHANGED <<state, ui_messages, probe, images>>

\* start_new_game, first command: the name is entered
SubmitName(command) ==
    /\ pc = "AwaitingName"
    /\ state' = GameState(command)
    /\ ui_messages' = add_system_messages(ui_messages,
                          << <<"Welcome, {command}!">> >>)
    /\ pc' = "start_new_situation"
    /\ UNCHANGED <<frame, probe, images>>

\* the messages of _start_new_situation about the karma carried over
karma_carry_messages(current_karma) ==
    IF current_karma = 0 THEN <<>>
    ELSE
    LET karma_message == IF current_karma > 0 THEN "positive" ELSE "negative"
        a == IF current_karma < 0 THEN 0 - current_karma ELSE current_karma
        intensity == IF a > 75 THEN "profound"
                     ELSE IF a > 35 THEN "significant" ELSE "subtle"
    IN  << <<"\nYour karma of {current_karma} carries over to your next life.">>,
           <<"Your ", karma_message, " karma will have a ", intensity,
             " influence on your next incarnation...">> >>

\* _load_karma_based_setting: the setting it returns and what it tells the
\* player; choice is the setting random.choice picks
_load_karma_based_setting(karma, outcome, choice) ==
    IF outcome = "found"
    THEN [setting |-> choice,
          messages |-> << <<"\nYour karma level ({karma}) has led you to a ",
                            karma_category(karma), " realm...">> >>]
    ELSE IF outcome \in {"unavailable", "category_missing"}
    THEN [setting |-> <<"Crossroads Inn">>, messages |-> <<>>]
    ELSE [setting |-> NoneText, messages |-> <<>>]

\* a variant of the life reset that also resets karma
new_life_karma_reset(st) == [reset_life_values(st) EXCEPT !.karma = 0]

\* _start_new_situation, the reset: karma is stored, the life values are
\* reset, karma is restored
new_life(st) ==
    LET current_karma == st.karma
    IN  [reset_life_values(st) EXCEPT !.karma = current_karma]

\* _start_new_situation up to the call of generate_initial_situation
StartNewSituation(outcome) ==
    /\ pc = "start_new_situation"
    /\ \E choice \in SampleSettings(karma_category(state.karma)) :
          LET st == new_life(state)
              loaded == _load_karma_based_setting(st.karma, outcome, choice)
          IN  /\ state' = [st EXCEPT !.chosen_setting = loaded.setting]
              /\ ui_messages' = add_system_messages(ui_messages,
                      karma_carry_messages(st.karma) \o loaded.messages)
    /\ pc' = "initial_situation"
    /\ UNCHANGED <<frame, probe, images>>

\* _start_new_situation, from the reply of generate_initial_situation to the
\* call of the item extraction
InitialSituation(r) ==
    /\ pc = "initial_situation"
    /\ IF r.raised \/ ~r.has_content
       THEN Crash
       ELSE /\ ui_messages' = add_gamemaster_message(
                    add_system_messages(ui_messages, <<<<"\nNew Situation:">>>>),
                    r.content)
            /\ state' = [state EXCEPT !.last_gamemaster_message = r.content]
            /\ pc' = "extract_items"
            /\ UNCHANGED <<frame, probe, images>>

\* the items _extract_initial_items reads from the reply text
initial_items(content) ==
    LET items_response == strip(content)
        parts == split(items_response, ",")
        stripped == [i \in 1..Len(parts) |-> strip(parts[i])]
        items == SelectSeq(stripped, LAMBDA item : item # <<>>)
    IN  SubSeq(items, 1, min(2, Len(items)))

\* _extract_initial_items, from the reply on; control then returns to the
\* event loop
ExtractInitialItems(r) ==
    /\ pc = "extract_items"
    /\ initial_image_request(images) => running_workers(images) < MaxWorkers
    /\ LET launch == initial_image_request(images)
           notice == IF launch THEN generating_notice(images) ELSE <<>>
       IN  /\ IF r.raised \/ ~r.has_content \/ initial_items(r.content) = <<>>
              THEN /\ state' = state
                   /\ ui_messages' = add_system_messages(ui_messages, notice)
              ELSE /\ state' = [state EXCEPT
                                  !.inventory = initial_items(r.content)]
                   /\ ui_messages' = add_system_messages(ui_messages,
                          << <<"Starting items: {items_str}">> >> \o notice)
           /\ images' = IF launch THEN _generate_scene_image(images)
                        ELSE images
    /\ pc' = "AwaitingAction"
    /\ UNCHANGED <<frame, probe>>

\* start_new_game, a later command: the player's action
SubmitAction(command) ==
    /\ pc = "AwaitingAction"
    /\ state.turn < MaxTurn
    /\ state' = [state EXCEPT !.last_player_message = command]
    /\ ui_messages' = add_player_message(ui_messages, command)
    /\ pc' = "eval_health"
    /\ UNCHANGED <<frame, probe, images>>

\* _process_turn, from the reply of the health evaluation to the call of the
\* karma evaluation
EvaluateHealth(r) ==
    /\ pc = "eval_health"
    /\ LET res == evaluate_health_change(r)
           health_change == res.health_change
           old_health == state.health
       IN  /\ frame' = [NoFrame EXCEPT
                           !.health_change = health_change,
                           !.health_explanation = res.explanation,
                           !.is_fatal = res.is_fatal,
                           !.old_health = old_health]
           /\ state' = [state EXCEPT !.health =
                           calculate_final_health(old_health, health_change)]
           /\ ui_messages' =
                IF (health_change >= 10 \/ health_change <= -10
                      \/ is_healing_attempt(state.last_player_message))
                   /\ health_change # 0
                THEN add_system_messages(ui_messages,
                        << IF health_change > 0
                           THEN <<"Health +{health_change}: {health_explanation}">>
                           ELSE <<"Health {health_change}: {health_explanation}">> >>)
                ELSE ui_messages
    /\ pc' = "eval_karma"
    /\ UNCHANGED <<probe, images>>

\* _process_turn, from the reply of the karma evaluation to the call of
\* generate_narrative_element
EvaluateKarma(r) ==
    /\ pc = "eval_karma"
    /\ LET res == evaluate_karma_change(r)
           karma_change == res.karma_change
           old_karma == state.karma
       IN  /\ frame' = [frame EXCEPT !.karma_change = karma_change,
                                     !.old_karma = old_karma]
           /\ state' = [state EXCEPT !.karma =
                           calculate_final_karma(old_karma, karma_change)]
           /\ ui_messages' =
                IF karma_change >= 5 \/ karma_change <= -5
                THEN add_system_messages(ui_messages,
                        << <<"Karma {karma_change:+d}: {karma_explanation}">> >>)
                ELSE ui_messages
    /\ pc' = "narrative"
    /\ UNCHANGED <<probe, images>>

\* _process_turn, from the reply of generate_narrative_element through
\* should_add_turbulence to the next call: the lethality verdict of a
\* hazard, or the turn response
NarrativeElement(r, choice, draw) ==
    /\ pc = "narrative"
    /\ IF r.raised \/ ~r.has_content
       THEN Crash
       ELSE /\ frame' = [frame EXCEPT !.narrative_element =
                    [type |-> element_type_of(state.last_player_message, choice),
                     content |-> strip(r.content)]]
            /\ pc' = IF should_add_turbulence(state.turn, draw)
                     THEN "lethality" ELSE "turn_response"
            /\ UNCHANGED <<state, ui_messages, probe, images>>

\* generate_turbulence_event, from the reply of _determine_lethality to the
\* call of _generate_event_description
DetermineLethality(r) ==
    /\ pc = "lethality"
    /\ IF r.raised \/ ~r.has_content
       THEN Crash
       ELSE /\ frame' = [frame EXCEPT !.turbulence_result.is_lethal =
                                          lethality_verdict(r.content)]
            /\ pc' = "event_description"
            /\ UNCHANGED <<state, ui_messages, probe, images>>

\* _handle_turbulence, from the reply of _generate_event_description to the
\* call of the turn response
EventDescription(r) ==
    /\ pc = "event_description"
    /\ IF r.raised \/ ~r.has_content
       THEN Crash
       ELSE /\ frame' = [frame EXCEPT
                           !.turbulence_result.present = TRUE,
                           !.turbulence_result.event = strip(r.content)]
            /\ ui_messages' = add_system_messages(ui_messages,
                   << <<"\nUNEXPECTED EVENT!">>, strip(r.content) >>)
            /\ pc' = "turn_response"
            /\ UNCHANGED <<state, probe, images>>

\* a variant of _update_game_state that leaves the turn counter alone
_update_game_state_same_turn(st, parsed_response) ==
    [st EXCEPT !.health = parsed_response.health,
               !.inventory = parsed_response.inventory,
               !.karma = parsed_response.karma,
               !.last_gamemaster_message = parsed_response.gamemaster_message,
               !.turn_summary = parsed_response.turn_summary,
               !.image_prompt = parsed_response.image_prompt]

\* the fields _update_game_state assigns
_update_game_state(st, parsed_response) ==
    [st EXCEPT !.health = parsed_response.health,
               !.inventory = parsed_response.inventory,
               !.karma = parsed_response.karma,
               !.last_gamemaster_message = parsed_response.gamemaster_message,
               !.turn_summary = parsed_response.turn_summary,
               !.image_prompt = parsed_response.image_prompt,
               !.turn = st.turn + 1]

\* the notices of _update_game_state about the inventory
inventory_notices(added_items, removed_items) ==
    (IF added_items # {}
     THEN << <<"Added to inventory: {items_str}">> >> ELSE <<>>)
    \o
    (IF removed_items # {}
     THEN << <<"Removed from inventory: {items_str}">> >> ELSE <<>>)

\* _process_turn, from the reply of the turn response through parse_response
\* and _update_game_state
TurnResponse(r) ==
    /\ pc = "turn_response"
    /\ IF r.raised
       THEN Crash
       ELSE LET parsed_response == parse_response(r, state)
                old_inventory == Range(state.inventory)
                new_inventory == Range(parsed_response.inventory)
                launch == turn_image_request(images,
                              _update_game_state(state, parsed_response))
            IN  /\ launch => running_workers(images) < MaxWorkers
                /\ frame' = [frame EXCEPT
                               !.parsed_response =
                                   [health |-> parsed_response.health,
                                    karma |-> parsed_response.karma],
                               !.saved_karma = state.karma,
                               !.saved_health = state.health]
                /\ state' = _update_game_state(state, parsed_response)
                /\ ui_messages' = add_system_messages(
                       add_gamemaster_message(ui_messages,
                           parsed_response.gamemaster_message),
                       inventory_notices(new_inventory \ old_inventory,
                                         old_inventory \ new_inventory)
                       \o (IF launch THEN generating_notice(images)
                           ELSE <<>>))
                /\ images' = IF launch THEN _generate_scene_image(images)
                             ELSE images
                /\ pc' = "restore"
                /\ UNCHANGED probe

\* a variant that keeps the numbers of the LLM's reply
keep_calculations_none(st, saved_karma, saved_health) == st

\* "Keep our karma calculation instead of the LLM's", and our health
keep_calculations(st, saved_karma, saved_health) ==
    [st EXCEPT !.karma = saved_karma, !.health = saved_health]

\* _process_turn, the two assignments after _update_game_state
RestoreCalculations ==
    /\ pc = "restore"
    /\ state' = keep_calculations(state, frame.saved_karma, frame.saved_health)
    /\ pc' = "death_check"
    /\ UNCHANGED <<frame, ui_messages, probe, images>>

\* a variant of the death check that looks at the fatal flag alone
is_death_fatal_only(health, is_fatal) == is_fatal

\* "Check for death"
is_death(health, is_fatal) == health <= 0 \/ is_fatal

\* _process_turn, the death check; no local of _process_turn is read after it
\* a variant in which a lethal hazard ends the life by itself
DeathCheck_lethal_hazard ==
    /\ pc = "death_check"
    /\ IF is_death(state.health, frame.is_fatal)
          \/ frame.turbulence_result.is_lethal
       THEN /\ state' = [state EXCEPT !.health = 0]
            /\ ui_messages' = add_system_messages(ui_messages,
                   << <<"\nYou have died! Reincarnating into a new life...\n">> >>)
            /\ pc' = "start_new_situation"
            /\ frame' = NoFrame
            /\ UNCHANGED <<probe, images>>
       ELSE /\ pc' = "AwaitingAction"
            /\ frame' = NoFrame
            /\ UNCHANGED <<state, ui_messages, probe, images>>

DeathCheck ==
    /\ pc = "death_check"
    /\ IF is_death(state.health, frame.is_fatal)
       THEN /\ state' = IF frame.is_fatal
                        THEN [state EXCEPT !.health = 0] ELSE state
            /\ ui_messages' = add_system_messages(ui_messages,
                   (IF frame.is_fatal
                    THEN << <<"\nFatal: {health_explanation}">> >>
                    ELSE <<>>)
                   \o << <<"\nYou have died! Reincarnating into a new life...\n">> >>)
            /\ pc' = "start_new_situation"
            /\ frame' = NoFrame
            /\ UNCHANGED <<probe, images>>
       ELSE /\ pc' = "AwaitingAction"
            /\ frame' = NoFrame
            /\ UNCHANGED <<state, ui_messages, probe, images>>

\* start_new_game: pygame.QUIT ends the loop
Quit ==
    /\ pc \in {"AwaitingName", "AwaitingAction"}
    /\ pc' = "Quit"
    /\ UNCHANGED <<state, frame, ui_messages, probe, images>>

\* what ImageGenerator.generate_image gives: an image, None, or an exception
ImageOutcomes == {"image", "none", "raised"}

\* _generate_image_thread, the try statement without its finally block, run
\* by a worker thread while the process lives: the image is stored and shown,
\* or the failure is reported
WorkerGenerated(outcome) ==
    /\ pc \notin {"Crashed", "Quit"}
    /\ images.generating > 0
    /\ images' = [images EXCEPT
                    !.generating = @ - 1,
                    !.finishing = @ + 1,
                    !.is_loading_image = FALSE,
                    !.ui_current_image =
                        IF outcome = "image" THEN "image" ELSE @]
    /\ state' = IF outcome = "image"
                THEN [state EXCEPT !.current_image = "image"]
                ELSE state
    /\ ui_messages' = add_system_messages(ui_messages,
           << IF outcome = "image" THEN <<"Scene image updated.">>
              ELSE IF outcome = "none"
                   THEN <<"Failed to generate scene image.">>
                   ELSE <<"Error generating scene image.">> >>)
    /\ UNCHANGED <<pc, frame, probe>>

\* _generate_image_thread, the finally block: the flag is cleared and the
\* thread returns
WorkerReturns ==
    /\ pc \notin {"Crashed", "Quit"}
    /\ images.finishing > 0
    /\ images' = [images EXCEPT !.finishing = @ - 1,
                                !.is_generating_image = FALSE]
    /\ UNCHANGED <<pc, state, frame, ui_messages, probe>>

\* no function is applied on its own
NoProbe == [fn |-> "none", arg |-> Raised, result |-> <<>>]

\* GameUI() and the messages start_new_game adds before its loop
InitialMessages(enabled) ==
    add_system_messages(<<>>,
        << <<"Welcome to the AI Text Adventure!">>,
           <<"Welcome to the AI Text Adventure!">>,
           IF enabled
           THEN <<"Image generation is enabled. You'll see scenes visualized as you play.">>
           ELSE <<"Image generation is disabled. Set OPENAI_API_KEY to enable it.">>,
           <<"Enter your character name: ">> >>)

Init ==
    /\ pc = "AwaitingName"
    /\ state = NoState
    /\ frame = NoFrame
    /\ ui_messages = InitialMessages(FALSE)
    /\ images = NoImages(FALSE)
    /\ probe = NoProbe

Next ==
    \/ \E command \in Names : SubmitName(command)
    \/ \E outcome \in CatalogOutcomes : StartNewSituation(outcome)
    \/ \E r \in SituationReplies : InitialSituation(r)
    \/ \E r \in ItemReplies : ExtractInitialItems(r)
    \/ \E command \in PlayerActions : SubmitAction(command)
    \/ \E r \in TurnHealthReplies : EvaluateHealth(r)
    \/ \E r \in TurnKarmaReplies : EvaluateKarma(r)
    \/ \E r \in NarrativeReplies, choice \in ElementTypes, draw \in RandomDraws :
          NarrativeElement(r, choice, draw)
    \/ \E r \in LethalityReplies : DetermineLethality(r)
    \/ \E r \in EventReplies : EventDescription(r)
    \/ \E r \in TurnReplies : TurnResponse(r)
    \/ RestoreCalculations
    \/ DeathCheck
    \/ Quit

Spec == Init /\ [][Next]_vars

TypeOK ==
    /\ pc \in {"AwaitingName", "start_new_situation", "initial_situation",
               "extract_items", "AwaitingAction", "eval_health", "eval_karma",
               "narrative", "lethality", "event_description", "turn_response",
               "restore", "death_check", "Crashed", "Quit", "call", "returned"}
    /\ Len(ui_messages) <= MaxMessages
    /\ running_workers(images) <= MaxWorkers

(***************************************************************************)
(* The game with image generation enabled (OPENAI_API_KEY is set): the     *)
(* event loop and the worker threads of _generate_scene_image              *)
(***************************************************************************)
ImageHealthReplies ==
    {HealthReply(<<"-", "8", "0">>, <<"False">>),
     HealthReply(<<"1", "0">>, <<"True">>)}

ImageKarmaReplies == {KarmaReply(<<"2", "0">>)}

ImageNarrativeReplies == {Reply(<<"A guard responds.">>)}

ImageSituationReplies == {Reply(<<"You wake in a cell.">>)}

ImageItemReplies == {Reply(<<" ", ",", " ">>)}

ImageTurnReplies ==
    {Reply(TurnBlock(<<"8", "0">>, <<"sword", ",", " ", "rope">>,
                     <<"-", "5">>))}

\* the draw of should_add_turbulence that adds no hazard at any turn
NoHazardDraws == {95}

InitImages ==
    /\ pc = "AwaitingName"
    /\ state = NoState
    /\ frame = NoFrame
    /\ ui_messages = InitialMessages(TRUE)
    /\ images = NoImages(TRUE)
    /\ probe = NoProbe

NextImages ==
    \/ \E command \in Names : SubmitName(command)
    \/ \E outcome \in CatalogOutcomes : StartNewSituation(outcome)
    \/ \E r \in ImageSituationReplies : InitialSituation(r)
    \/ \E r \in ImageItemReplies : ExtractInitialItems(r)
    \/ \E command \in PlayerActions : SubmitAction(command)
    \/ \E r \in ImageHealthReplies : EvaluateHealth(r)
    \/ \E r \in ImageKarmaReplies : EvaluateKarma(r)
    \/ \E r \in ImageNarrativeReplies, draw \in NoHazardDraws :
          NarrativeElement(r, "ACTION", draw)
    \/ \E r \in ImageTurnReplies : TurnResponse(r)
    \/ RestoreCalculations
    \/ DeathCheck
    \/ Quit
    \/ \E outcome \in ImageOutcomes : WorkerGenerated(outcome)
    \/ WorkerReturns

SpecImages == InitImages /\ [][NextImages]_vars

(***************************************************************************)
(* The start of a life on its own: a player of any karma has died, and the *)
(* settings catalog is in one of its conditions                            *)
(***************************************************************************)
\* karma_situations.txt: it lists settings under the category, it cannot be
\* read, it has no section of the category, or the section lists no setting
AllCatalogOutcomes == {"found", "unavailable", "category_missing", "empty"}

KarmaValues == -100..100

InitSettings ==
    /\ pc = "start_new_situation"
    /\ \E karma \in KarmaValues :
          state = [GameState(<<"Ann">>) EXCEPT
                      !.karma = karma, !.health = 0, !.turn = 1,
                      !.inventory = << <<"rope">> >>,
                      !.chosen_setting = <<"Crossroads Inn">>]
    /\ frame = NoFrame
    /\ ui_messages = InitialMessages(FALSE)
    /\ images = NoImages(FALSE)
    /\ \E outcome \in AllCatalogOutcomes :
          probe = [fn |-> "karma_situations.txt", arg |-> outcome,
                   result |-> <<>>]

NextSettings == StartNewSituation(probe.arg)

SpecSettings == InitSettings /\ [][NextSettings]_vars

(***************************************************************************)
(* The two evaluators applied on their own: one call of                    *)
(* evaluate_health_change or evaluate_karma_change on a sample reply of    *)
(* the LLM gateway.                                                        *)
(***************************************************************************)
\* what a reply writes where the number is expected
EvaluatorNumbers ==
    {<<"0">>, <<"5">>, <<"2", "5">>, <<"2", "6">>, <<"4", "0">>,
     <<"1", "0">>, <<"1", "1">>, <<"1", "5">>, <<"2", "0">>,
     <<"-", "5">>, <<"-", "1", "0">>, <<"-", "1", "1">>, <<"-", "1", "5">>,
     <<"-", "5", "0">>, <<"-", "5", "1">>, <<"-", "8", "0">>,
     <<"-", "1", "0", "0">>, <<"+", "3", "0">>, <<"9", "9", "9">>,
     <<"7", " ">>, <<"2", ".", "5">>, <<"n", "o", "n", "e">>, <<>>}

\* what a reply writes after IS_FATAL:
EvaluatorFatalWords ==
    {<<"true">>, <<"True">>, <<"TRUE">>, <<"false">>, <<"False">>, <<"yes">>}

\* replies in which a labelled line is missing
EvaluatorHealthRepliesMissingLine ==
    {Reply(<<"HEALTH_CHANGE", ":", " ", "4", "0", "\n",
             "IS_FATAL", ":", " ", "true">>),
     Reply(<<"EXPLANATION", ":", " ", "You are hurt.", "\n",
             "IS_FATAL", ":", " ", "false">>),
     Reply(<<"HEALTH_CHANGE", ":", " ", "-", "5", "\n",
             "EXPLANATION", ":", " ", "You are hurt.">>),
     Reply(<<" ", "Note", ":", "\n", " ", "HEALTH_CHANGE", ":", " ", "5", "\n",
             "EXPLANATION", ":", " ", "You are hurt.", "\n",
             "IS_FATAL", ":", " ", "false">>),
     Reply(<<"I", " ", "cannot", " ", "say">>),
     Reply(<<>>)}

EvaluatorKarmaRepliesMissingLine ==
    {Reply(<<"KARMA_CHANGE", ":", " ", "2", "0">>),
     Reply(<<"EXPLANATION", ":", " ", "You chose.">>),
     Reply(<<"I", " ", "cannot", " ", "say">>),
     Reply(<<>>)}

EvaluatorHealthReplies ==
    {HealthReply(number, fatal) :
        number \in EvaluatorNumbers, fatal \in EvaluatorFatalWords}
    \cup EvaluatorHealthRepliesMissingLine
    \cup {Raised, NoContent}

EvaluatorKarmaReplies ==
    {KarmaReply(number) : number \in EvaluatorNumbers}
    \cup EvaluatorKarmaRepliesMissingLine
    \cup {Raised, NoContent}

\* the number a sample reply carries, as Python's int reads it
RepliedKarmaNumber(r) ==
    IF \E number \in EvaluatorNumbers : r = KarmaReply(number)
    THEN int(CHOOSE number \in EvaluatorNumbers : r = KarmaReply(number))
    ELSE [ok |-> FALSE, val |-> 0]

InitEvaluators ==
    /\ pc = "call"
    /\ state = NoState
    /\ frame = NoFrame
    /\ ui_messages = InitialMessages(FALSE)
    /\ images = NoImages(FALSE)
    /\ probe \in
          {[fn |-> "evaluate_health_change", arg |-> r, result |-> <<>>] :
              r \in EvaluatorHealthReplies}
          \cup
          {[fn |-> "evaluate_karma_change", arg |-> r, result |-> <<>>] :
              r \in EvaluatorKarmaReplies}

\* HealthManager.evaluate_health_change returns
CallEvaluateHealth ==
    /\ pc = "call"
    /\ probe.fn = "evaluate_health_change"
    /\ probe' = [probe EXCEPT !.result = <<evaluate_health_change(probe.arg)>>]
    /\ pc' = "returned"
    /\ UNCHANGED <<state, frame, ui_messages, images>>

\* KarmaManager.evaluate_karma_change returns
CallEvaluateKarma ==
    /\ pc = "call"
    /\ probe.fn = "evaluate_karma_change"
    /\ probe' = [probe EXCEPT !.result = <<evaluate_karma_change(probe.arg)>>]
    /\ pc' = "returned"
    /\ UNCHANGED <<state, frame, ui_messages, images>>

NextEvaluators == CallEvaluateHealth \/ CallEvaluateKarma

SpecEvaluators == InitEvaluators /\ [][NextEvaluators]_vars

(***************************************************************************)
(* calculate_final_health and calculate_final_karma applied on their own.  *)
(***************************************************************************)
\* current values, values outside the range included
CurrentValues == {-150, -100, -99, -20, -1, 0, 1, 10, 50, 90, 99, 100, 101, 150}

\* proposed changes
ProposedChanges == {-200, -100, -50, -11, -1, 0, 1, 10, 25, 50, 100, 200}

InitCalculate ==
    /\ pc = "call"
    /\ state = NoState
    /\ frame = NoFrame
    /\ ui_messages = InitialMessages(FALSE)
    /\ images = NoImages(FALSE)
    /\ probe \in
          {[fn |-> fn, arg |-> <<current, change>>, result |-> <<>>] :
              fn \in {"calculate_final_health", "calculate_final_karma"},
              current \in CurrentValues, change \in ProposedChanges}

\* HealthManager.calculate_final_health returns
CallCalculateFinalHealth ==
    /\ pc = "call"
    /\ probe.fn = "calculate_final_health"
    /\ probe' = [probe EXCEPT !.result =
                    <<calculate_final_health(probe.arg[1], probe.arg[2])>>]
    /\ pc' = "returned"
    /\ UNCHANGED <<state, frame, ui_messages, images>>

\* KarmaManager.calculate_final_karma returns
CallCalculateFinalKarma ==
    /\ pc = "call"
    /\ probe.fn = "calculate_final_karma"
    /\ probe' = [probe EXCEPT !.result =
                    <<calculate_final_karma(probe.arg[1], probe.arg[2])>>]
    /\ pc' = "returned"
    /\ UNCHANGED <<state, frame, ui_messages, images>>

NextCalculate == CallCalculateFinalHealth \/ CallCalculateFinalKarma

SpecCalculate == InitCalculate /\ [][NextCalculate]_vars

(***************************************************************************)
(* ResponseParser.parse_response applied on its own: one call on a sample  *)
(* response and a sample current state.                                    *)
(***************************************************************************)
\* a field line that is not written, and one that is written with a text
Missing == [present |-> FALSE, text |-> <<>>]

Written(text) == [present |-> TRUE, text |-> text]

\* the line of one field in the block
FieldLine(label, field) ==
    IF field.present THEN <<label, " ">> \o field.text \o <<"\n">> ELSE <<>>

\* the reply text that carries the block of the written fields
BlockOf(fields) ==
    <<"Here", " ", "you", " ", "go", ":", "\n",
      "START_LLM_GENERATED_CONTENT:", "\n">>
    \o FieldLine("***health:", fields.health)
    \o FieldLine("***inventory:", fields.inventory)
    \o FieldLine("***karma:", fields.karma)
    \o FieldLine("***gamemaster_message:", fields.gamemaster_message)
    \o FieldLine("***image_prompt:", fields.image_prompt)
    \o FieldLine("***turn_summary:", fields.turn_summary)
    \o <<"END_LLM_GENERATED_CONTENT", "\n">>

HealthTexts ==
    {<<"0">>, <<"8", "0">>, <<"1", "0", "0">>, <<"2", "5", "0">>,
     <<"a", "b", "c">>, <<"-", "5">>}

KarmaTexts ==
    {<<"-", "1", "0", "0">>, <<"-", "5">>, <<"1", "0", "0">>,
     <<"-", "3", "0", "0">>, <<"g", "o", "o", "d">>}

InventoryTexts ==
    {<<"sword", ",", " ", "rope">>,
     <<"rope", ",", " ", "Rope", ",", " ", "rope">>,
     <<"[", "'", "sword", "'", ",", " ", "'", "rope", "'", "]">>,
     <<"thief", "'", "s", " ", "dagger", ",", " ", "rope">>,
     <<"old", " ", "map", ",", " ", "Rope">>,
     <<"sword", ",", ",", " ", ",", "\"", "\"", ",", " ", "old", " ", "map", " ">>}

BlockFields ==
    [health : {Missing} \cup {Written(t) : t \in HealthTexts},
     inventory : {Missing} \cup {Written(t) : t \in InventoryTexts},
     karma : {Missing} \cup {Written(t) : t \in KarmaTexts},
     gamemaster_message : {Missing, Written(<<"You", " ", "proceed.">>)},
     image_prompt : {Missing, Written(<<"A dark cave.">>)},
     turn_summary : {Missing, Written(<<"Entered cave.">>)}]

NoFields ==
    [health |-> Missing, inventory |-> Missing, karma |-> Missing,
     gamemaster_message |-> Missing, image_prompt |-> Missing,
     turn_summary |-> Missing]

\* raw texts without a pair of a start marker and a later end marker
RawTexts ==
    {<<" ", "You", " ", "proceed.", "\n">>,
     <<>>,
     <<" ", "\n">>,
     <<"START_LLM_GENERATED_CONTENT:", "\n", "***health:", " ", "5", "\n">>,
     <<"***health:", " ", "5", "\n", "END_LLM_GENERATED_CONTENT">>,
     <<"END_LLM_GENERATED_CONTENT", " ", "oops", " ",
       "START_LLM_GENERATED_CONTENT:">>}

\* what was written into the response, and the response object itself
ParserResponses ==
    {[kind |-> "block", text |-> BlockOf(fields), fields |-> fields,
      response |-> Reply(BlockOf(fields))] : fields \in BlockFields}
    \cup
    {[kind |-> "raw", text |-> text, fields |-> NoFields,
      response |-> Reply(text)] : text \in RawTexts}
    \cup
    {[kind |-> "no_content", text |-> <<>>, fields |-> NoFields,
      response |-> NoContent],
     [kind |-> "not_text", text |-> <<>>, fields |-> NoFields,
      response |-> NotText]}

\* current states of a life: a new life, a life with starting items as
\* _extract_initial_items stores them, a life after two parsed turns
ParserStates ==
    LET new == [GameState(<<"Ann">>) EXCEPT
                   !.chosen_setting = <<"Crossroads Inn">>,
                   !.last_gamemaster_message = <<"You wake in a cell.">>,
                   !.last_player_message =
                       <<"attack", " ", "the", " ", "guard">>]
    IN  {new,
         [new EXCEPT !.inventory = << <<"rope">>, <<"rope">> >>,
                     !.karma = 10],
         [new EXCEPT !.inventory = << <<"thief", "'", "s", " ", "dagger">> >>,
                     !.health = 75],
         [new EXCEPT !.inventory = << <<"sword">>, <<"old", " ", "map">> >>,
                     !.health = 40, !.karma = -20, !.turn = 2,
                     !.turn_summary = <<"Entered cave.">>,
                     !.image_prompt = <<"A dark cave.">>]}

InitParser ==
    /\ pc = "call"
    /\ state \in ParserStates
    /\ frame = NoFrame
    /\ ui_messages = InitialMessages(FALSE)
    /\ images = NoImages(FALSE)
    /\ probe \in
          {[fn |-> "parse_response", arg |-> w, result |-> <<>>] :
              w \in ParserResponses}

\* ResponseParser.parse_response(response, self.state) returns
CallParseResponse ==
    /\ pc = "call"
    /\ probe.fn = "parse_response"
    /\ probe' = [probe EXCEPT !.result =
                    <<parse_response(probe.arg.response, state)>>]
    /\ pc' = "returned"
    /\ UNCHANGED <<state, frame, ui_messages, images>>

NextParser == CallParseResponse

SpecParser == InitParser /\ [][NextParser]_vars

(***************************************************************************)
(* ResponseParser.parse_response applied to blocks of six lines in which   *)
(* free-text fields may have nothing after the label                       *)
(***************************************************************************)
\* what is written after the label of a free-text field: nothing, or blanks
BlankTexts == {<<>>, <<" ">>}

LineFields ==
    [health : {Written(<<"8", "0">>)},
     inventory : {Written(t) : t \in {<<"sword", ",", " ", "rope">>}
                                       \cup BlankTexts},
     karma : {Written(<<"-", "5">>)},
     gamemaster_message : {Written(t) : t \in {<<"You", " ", "proceed.">>}
                                                \cup BlankTexts},
     image_prompt : {Written(t) : t \in {<<"A dark cave.">>} \cup BlankTexts},
     turn_summary : {Written(t) : t \in {<<"Entered cave.">>}
                                          \cup BlankTexts}]

InitLines ==
    /\ pc = "call"
    /\ state \in ParserStates
    /\ frame = NoFrame
    /\ ui_messages = InitialMessages(FALSE)
    /\ images = NoImages(FALSE)
    /\ \E fields \in LineFields :
          probe = [fn |-> "parse_response",
                   arg |-> [kind |-> "lines", text |-> <<>>,
                            fields |-> fields,
                            response |-> Reply(BlockOf(fields))],
                   result |-> <<>>]

NextLines == CallParseResponse

SpecLines == InitLines /\ [][NextLines]_vars

(***************************************************************************)
(* The choice of the element type in generate_narrative_element applied on *)
(* its own to sample player actions                                        *)
(***************************************************************************)
\* player actions; an atom may be a part of a word ("T","ask" is "Task")
NarrativeActions ==
    {<<"attack", " ", "the", " ", "guard">>,
     <<"talk", " ", "then", " ", "attack">>,
     <<"attack", " ", "then", " ", "talk">>,
     <<"run", " ", "and", " ", "look">>,
     <<"look", " ", "and", " ", "take">>,
     <<"take", " ", "the", " ", "rope">>,
     <<"go", " ", "and", " ", "run">>,
     <<"T", "ask", " ", "done">>,
     <<"for", "go", "tten">>,
     <<"Attack">>,
     <<"dance">>,
     <<>>,
     <<"wait", " ", "here">>,
     <<"wear", " ", "cloak">>,
     <<"give", " ", "and", " ", "open">>}

InitNarrative ==
    /\ pc = "call"
    /\ state = NoState
    /\ frame = NoFrame
    /\ ui_messages = InitialMessages(FALSE)
    /\ images = NoImages(FALSE)
    /\ \E action \in NarrativeActions, choice \in ElementTypes :
          probe = [fn |-> "generate_narrative_element",
                   arg |-> [last_player_message |-> action,
                            choice |-> choice],
                   result |-> <<>>]

\* the element type generate_narrative_element settles on
CallElementType ==
    /\ pc = "call"
    /\ probe.fn = "generate_narrative_element"
    /\ probe' = [probe EXCEPT !.result =
                    <<element_type_of(probe.arg.last_player_message,
                                      probe.arg.choice)>>]
    /\ pc' = "returned"
    /\ UNCHANGED <<state, frame, ui_messages, images>>

NextNarrative == CallElementType

SpecNarrative == InitNarrative /\ [][NextNarrative]_vars

(***************************************************************************)
(* TurbulenceSystem.generate_turbulence_event applied on its own: the      *)
(* lethal chance of a karma and the verdict read from the LLM's reply      *)
(***************************************************************************)
LethalityTexts ==
    {<<"YES">>, <<"NO">>, <<" ", "YES", "\n">>, <<"yes">>, <<"Yes">>,
     <<"YES", ".">>, <<"maybe">>, <<>>}

InitLethality ==
    /\ pc = "call"
    /\ \E karma \in KarmaValues :
          state = [GameState(<<"Ann">>) EXCEPT !.karma = karma, !.turn = 2]
    /\ frame = NoFrame
    /\ ui_messages = InitialMessages(FALSE)
    /\ images = NoImages(FALSE)
    /\ \E text \in LethalityTexts :
          probe = [fn |-> "generate_turbulence_event", arg |-> Reply(text),
                   result |-> <<>>]

\* generate_turbulence_event up to the verdict of _determine_lethality
CallGenerateTurbulenceEvent ==
    /\ pc = "call"
    /\ probe.fn = "generate_turbulence_event"
    /\ probe' = [probe EXCEPT !.result =
                    <<[lethal_chance |-> lethal_chance(state.karma),
                       is_lethal |-> lethality_verdict(probe.arg.content)]>>]
    /\ pc' = "returned"
    /\ UNCHANGED <<state, frame, ui_messages, images>>

NextLethality == CallGenerateTurbulenceEvent

SpecLethality == InitLethality /\ [][NextLethality]_vars

(***************************************************************************)
(* The game together with TurbulenceSystem.should_add_turbulence applied   *)
(* on its own for turn numbers the bounded game does not reach.            *)
(***************************************************************************)
TurnNumbers == 0..12

\* random.random() in percent, around the three chances
ChanceDraws == {0, 9, 10, 11, 19, 20, 21, 29, 30, 31, 99}

InitShouldAddTurbulence ==
    /\ pc = "call"
    /\ state = NoState
    /\ frame = NoFrame
    /\ ui_messages = InitialMessages(FALSE)
    /\ images = NoImages(FALSE)
    /\ probe \in
          {[fn |-> "should_add_turbulence", arg |-> <<turn, draw>>,
            result |-> <<>>] : turn \in TurnNumbers, draw \in ChanceDraws}

\* TurbulenceSystem.should_add_turbulence returns
CallShouldAddTurbulence ==
    /\ pc = "call"
    /\ probe.fn = "should_add_turbulence"
    /\ probe' = [probe EXCEPT !.result =
                    <<should_add_turbulence(probe.arg[1], probe.arg[2])>>]
    /\ pc' = "returned"
    /\ UNCHANGED <<state, frame, ui_messages, images>>

InitHazard == Init \/ InitShouldAddTurbulence

NextHazard == Next \/ CallShouldAddTurbulence

SpecHazard == InitHazard /\ [][NextHazard]_vars

(***************************************************************************)
(* Properties                                                              *)
(***************************************************************************)
\* the last entry of GameUI.messages is the system message with this text
LastMessageIs(text) ==
    /\ ui_messages # <<>>
    /\ ui_messages[Len(ui_messages)] = [type |-> "SYSTEM", text |-> text]

DeathNotice == <<"\nYou have died! Reincarnating into a new life...\n">>

\* C1: in every reachable state of the game, after any sequence of name
\* entry, turns with arbitrary LLM replies and reincarnations,
\* GameState.health is an integer with 0 <= health <= 100.
C1_HealthInRange == state # NoState => state.health \in 0..100

\* a healing of 25 granted at full health: the sum 125 was bounded to 100
C1_Witness ==
    /\ pc = "eval_karma"
    /\ frame.old_health + frame.health_change > 100
    /\ state.health = 100

\* C2: in every reachable state of the game, after any sequence of turns and
\* reincarnations with arbitrary LLM replies, GameState.karma is an integer
\* with -100 <= karma <= 100.
C2_KarmaInRange == state # NoState => state.karma \in -100..100

\* a loss of 10 at karma -100: the sum -110 was bounded to -100
C2_Witness ==
    /\ pc = "narrative"
    /\ frame.old_karma + frame.karma_change < -100
    /\ state.karma = -100

\* C3: when a turn completes without death, state.health is
\* clamp(old_health + health_delta, 0, 100) and state.karma is
\* clamp(old_karma + karma_delta, -100, 100) for the deltas the Health and
\* Karma Evaluators returned; the numbers of the narrative reply (held in
\* parsed_response) have no part in them.
C3_Reconciliation ==
    [][(pc = "death_check" /\ pc' = "AwaitingAction") =>
          /\ state'.health =
                calculate_final_health(frame.old_health, frame.health_change)
          /\ state'.karma =
                calculate_final_karma(frame.old_karma, frame.karma_change)]_vars

\* a turn about to complete without death whose narrative reply carried
\* other numbers than the evaluators computed
C3_Witness ==
    /\ pc = "death_check"
    /\ ~is_death(state.health, frame.is_fatal)
    /\ frame.health_change # 0
    /\ frame.karma_change # 0
    /\ frame.parsed_response.health # state.health
    /\ frame.parsed_response.karma # state.karma

\* C4: when a turn ends in death the karma is the one computed in the fatal
\* turn (its karma delta included), and the new life that is started keeps
\* that karma and the name, while health is 100, turn is 0 and the inventory
\* is empty.
C4_Reincarnation ==
    [][/\ (pc = "death_check" /\ pc' = "start_new_situation") =>
             /\ state'.karma =
                   calculate_final_karma(frame.old_karma, frame.karma_change)
             /\ state'.name = state.name
       /\ pc = "start_new_situation" =>
             /\ state'.karma = state.karma
             /\ state'.name = state.name
             /\ state'.health = 100
             /\ state'.turn = 0
             /\ state'.inventory = <<>>]_vars

\* a life started with karma below 0: karma is 0 in the first life, so this
\* life follows a death
C4_Witness ==
    /\ pc = "initial_situation"
    /\ state.karma < 0
    /\ state.health = 100
    /\ state.turn = 0
    /\ state.inventory = <<>>

\* C5: no failure of the LLM gateway ends the game loop: whichever LLM call
\* of a turn or of the start of a life raises, the game goes on to await the
\* next player action.
C5_LLMFailureRecovered == pc # "Crashed"

\* C6: in every reachable state the inventory has no duplicate entries,
\* after the starting items are seeded and after every turn.
C6_InventoryNoDuplicates ==
    state # NoState =>
        \A i, j \in 1..Len(state.inventory) :
            state.inventory[i] = state.inventory[j] => i = j

\* C7: the turn counter grows by exactly 1 in every processed turn (also
\* when the narrative reply was malformed), it becomes 0 when a new life
\* starts, and no other operation changes it.
C7_TurnCounter ==
    [][/\ (pc = "turn_response" /\ pc' = "restore") =>
             state'.turn = state.turn + 1
       /\ pc = "start_new_situation" => state'.turn = 0
       /\ (state # NoState
             /\ ~(pc = "turn_response" /\ pc' = "restore")
             /\ pc # "start_new_situation") =>
             state'.turn = state.turn]_vars

\* the second turn of a life was processed from a malformed narrative reply
C7_Witness ==
    /\ pc = "restore"
    /\ state.turn = 2
    /\ state.image_prompt = <<"A mysterious scene">>
    /\ state.last_gamemaster_message = <<"You proceed.">>

\* C8: at the death check a new life is triggered if and only if the
\* locally computed health is <= 0 or the Health Evaluator flagged is_fatal;
\* then health is 0 and the death notice is the last message before the new
\* life starts; otherwise the turn ends in the same life.
C8_DeathCheck ==
    [][pc = "death_check" =>
          LET health == calculate_final_health(frame.old_health,
                                               frame.health_change)
              dies == health <= 0 \/ frame.is_fatal
          IN  /\ dies <=> pc' = "start_new_situation"
              /\ dies => /\ state'.health = 0
                         /\ ui_messages' # <<>>
                         /\ ui_messages'[Len(ui_messages')] =
                               [type |-> "SYSTEM", text |-> DeathNotice]
              /\ ~dies => /\ pc' = "AwaitingAction"
                          /\ state' = state]_vars

\* a turn has ended in death: health is 0, the death notice is shown and a
\* new life is about to start
C8_Witness ==
    /\ pc = "start_new_situation"
    /\ state # NoState
    /\ state.health = 0
    /\ state.turn > 0
    /\ LastMessageIs(DeathNotice)

\* C9: whenever evaluate_health_change returns is_fatal = TRUE the delta it
\* returns is -100, whatever HEALTH_CHANGE value the reply carried; whenever
\* it returns is_fatal = FALSE the delta lies in [-50, 25].
C9_HealthEvaluatorBounds ==
    (pc = "returned" /\ probe.fn = "evaluate_health_change") =>
        LET res == probe.result[1]
        IN  /\ res.is_fatal => res.health_change = -100
            /\ ~res.is_fatal => res.health_change \in -50..25

\* a reply that says 40 and fatal was evaluated: the delta is -100
C9_Witness ==
    /\ pc = "returned"
    /\ probe.fn = "evaluate_health_change"
    /\ probe.arg = HealthReply(<<"4", "0">>, <<"True">>)
    /\ probe.result[1].is_fatal
    /\ probe.result[1].health_change = -100

\* C10: for every reply the delta evaluate_karma_change returns lies in
\* [-10, 10]; a parsed value above 10 yields 10 and one below -10 yields -10.
C10_KarmaEvaluatorBounds ==
    (pc = "returned" /\ probe.fn = "evaluate_karma_change") =>
        LET res == probe.result[1]
            n == RepliedKarmaNumber(probe.arg)
        IN  /\ res.karma_change \in -10..10
            /\ (n.ok /\ n.val > 10) => res.karma_change = 10
            /\ (n.ok /\ n.val < -10) => res.karma_change = -10

\* a reply that says 20 was evaluated: the delta is 10
C10_Witness ==
    /\ pc = "returned"
    /\ probe.fn = "evaluate_karma_change"
    /\ probe.arg = KarmaReply(<<"2", "0">>)
    /\ probe.result[1].karma_change = 10

\* the sample texts in the place of the number that are no integer
NonIntegerTexts == {<<"2", ".", "5">>, <<"n", "o", "n", "e">>, <<>>}

\* C11: when the LLM call fails, or the reply misses a labelled line or
\* carries a number that is no integer, evaluate_health_change returns
\* exactly (0, "Unable to evaluate health change for this action.", False)
\* and evaluate_karma_change returns exactly
\* (0, "Unable to evaluate karma change for this action."); the call always
\* returns a value.
C11_EvaluatorFailurePolicy ==
    /\ (pc = "returned" /\ probe.fn = "evaluate_health_change"
          /\ probe.arg \in
                {Raised, NoContent} \cup EvaluatorHealthRepliesMissingLine
                \cup {HealthReply(number, fatal) :
                        number \in NonIntegerTexts,
                        fatal \in EvaluatorFatalWords}) =>
          probe.result =
            << [health_change |-> 0,
                explanation |->
                    <<"Unable to evaluate health change for this action.">>,
                is_fatal |-> FALSE] >>
    /\ (pc = "returned" /\ probe.fn = "evaluate_karma_change"
          /\ probe.arg \in
                {Raised, NoContent} \cup EvaluatorKarmaRepliesMissingLine
                \cup {KarmaReply(number) : number \in NonIntegerTexts}) =>
          probe.result =
            << [karma_change |-> 0,
                explanation |->
                    <<"Unable to evaluate karma change for this action.">>] >>

\* a reply whose HEALTH_CHANGE is "none" and whose IS_FATAL is true was
\* evaluated
C11_Witness ==
    /\ pc = "returned"
    /\ probe.fn = "evaluate_health_change"
    /\ probe.arg = HealthReply(<<"n", "o", "n", "e">>, <<"true">>)
    /\ probe.result[1].health_change = 0
    /\ ~probe.result[1].is_fatal

\* x bounded to lo..hi
clamp(x, lo, hi) == IF x < lo THEN lo ELSE IF x > hi THEN hi ELSE x

\* C12: for all integers h, k, d, calculate_final_health(h, d) is
\* clamp(h + d, 0, 100) and calculate_final_karma(k, d) is
\* clamp(k + d, -100, 100), and both return a value for every input;
\* calculate_final_health(10, -50) = 0, calculate_final_karma(90, 50) = 100.
C12_CalculateFinal ==
    /\ (pc = "returned" /\ probe.fn = "calculate_final_health") =>
          /\ probe.result = <<clamp(probe.arg[1] + probe.arg[2], 0, 100)>>
          /\ probe.arg = <<10, -50>> => probe.result = <<0>>
    /\ (pc = "returned" /\ probe.fn = "calculate_final_karma") =>
          /\ probe.result = <<clamp(probe.arg[1] + probe.arg[2], -100, 100)>>
          /\ probe.arg = <<90, 50>> => probe.result = <<100>>
    /\ (pc = "call" /\ probe.fn \in {"calculate_final_health",
                                      "calculate_final_karma"}) =>
          ENABLED NextCalculate

\* calculate_final_karma(-99, -11) has returned -100
C12_Witness ==
    /\ pc = "returned"
    /\ probe.fn = "calculate_final_karma"
    /\ probe.arg = <<-99, -11>>
    /\ probe.result = <<-100>>

\* C13: parse_response returns for every response (any text, an object
\* without content, missing or partial markers, missing or garbled fields) a
\* result with the six fields health, inventory, karma, gamemaster_message,
\* image_prompt and turn_summary, health in [0,100] and karma in [-100,100];
\* it never raises (every exception of the parsing is caught in
\* parse_response and yields the default response).
C13_ParseResponseTotal ==
    (pc = "returned" /\ probe.fn = "parse_response") =>
          LET res == probe.result[1]
          IN  /\ DOMAIN res = {"health", "inventory", "karma",
                               "gamemaster_message", "image_prompt",
                               "turn_summary"}
              /\ res.health \in 0..100
              /\ res.karma \in -100..100

\* a block whose health is 250 and whose karma is -300 was parsed
C13_Witness ==
    /\ pc = "returned"
    /\ probe.fn = "parse_response"
    /\ probe.arg.kind = "block"
    /\ probe.arg.fields.health = Written(<<"2", "5", "0">>)
    /\ probe.arg.fields.karma = Written(<<"-", "3", "0", "0">>)
    /\ probe.result[1].health = 100
    /\ probe.result[1].karma = -100

\* C14: for every raw text without a pair of start and end marker,
\* parse_response returns the trimmed raw text as gamemaster_message and the
\* health, karma and inventory of the state before the call.
C14_MalformedInput ==
    (pc = "returned" /\ probe.fn = "parse_response"
        /\ probe.arg.kind = "raw") =>
        LET res == probe.result[1]
        IN  /\ res.gamemaster_message = strip(probe.arg.text)
            /\ res.health = state.health
            /\ res.karma = state.karma
            /\ res.inventory = state.inventory

\* C14 as amended: the same for every raw text that is not empty; for the
\* empty text the gamemaster_message is the apology of the default response
\* and health, karma and inventory are those of the state before the call.
C14_MalformedInputNonEmpty ==
    (pc = "returned" /\ probe.fn = "parse_response"
        /\ probe.arg.kind = "raw") =>
        LET res == probe.result[1]
        IN  /\ probe.arg.text # <<>> =>
                  res.gamemaster_message = strip(probe.arg.text)
            /\ probe.arg.text = <<>> =>
                  res.gamemaster_message =
                    <<"I apologize, but I'm having trouble processing what happened. Please try your action again.">>
            /\ res.health = state.health
            /\ res.karma = state.karma
            /\ res.inventory = state.inventory

\* a text with a start marker and no end marker was parsed in a state with
\* an inventory: the whole text is the gamemaster_message
C14_Witness ==
    /\ pc = "returned"
    /\ probe.fn = "parse_response"
    /\ probe.arg.kind = "raw"
    /\ probe.result[1].gamemaster_message =
          <<"START_LLM_GENERATED_CONTENT:", "\n", "***health:", " ", "5">>
    /\ state.health = 40
    /\ probe.result[1].health = 40
    /\ probe.result[1].inventory = << <<"sword">>, <<"old", " ", "map">> >>

\* item names
SampleItems ==
    {<<"sword">>, <<"rope">>, <<"Rope">>, <<"old", " ", "map">>,
     <<"thief", "'", "s", " ", "dagger">>}

\* item names without bracket, quote or backslash characters
PlainItems ==
    {item \in SampleItems :
        \A i \in 1..Len(item) : item[i] \notin {"[", "]", "'", "\"", "\\"}}

\* the six lines are written, health is H in 0..100, karma is K in
\* -100..100, the inventory is two distinct items of the set items: then the
\* result res is exactly what was written
RoundTrip(items, fields, res) ==
    (/\ \A key \in DOMAIN fields : fields[key].present
     /\ \E H \in 0..100 : fields.health.text = str(H)
     /\ \E K \in -100..100 : fields.karma.text = str(K)
     /\ \E i1, i2 \in items :
            i1 # i2 /\ fields.inventory.text = i1 \o <<",", " ">> \o i2) =>
    /\ \A H \in 0..100 : fields.health.text = str(H) => res.health = H
    /\ \A K \in -100..100 : fields.karma.text = str(K) => res.karma = K
    /\ \A i1, i2 \in items :
            fields.inventory.text = i1 \o <<",", " ">> \o i2 =>
                res.inventory = <<i1, i2>>
    /\ res.gamemaster_message = fields.gamemaster_message.text
    /\ res.image_prompt = fields.image_prompt.text
    /\ res.turn_summary = fields.turn_summary.text

\* C15: for a well-formed block with the six lines ***health: H,
\* ***inventory: i1, i2, ***karma: K, ***gamemaster_message: M,
\* ***image_prompt: P, ***turn_summary: S (H in 0..100, K in -100..100,
\* single-line texts, distinct items) parse_response returns exactly
\* health H, inventory [i1, i2], karma K and the texts M, P, S.
C15_RoundTrip ==
    (pc = "returned" /\ probe.fn = "parse_response"
        /\ probe.arg.kind = "block") =>
        RoundTrip(SampleItems, probe.arg.fields, probe.result[1])

\* C15 as amended: the same for items that contain no bracket, quote or
\* backslash character.
C15_RoundTripPlainItems ==
    (pc = "returned" /\ probe.fn = "parse_response"
        /\ probe.arg.kind = "block") =>
        RoundTrip(PlainItems, probe.arg.fields, probe.result[1])

\* the block of the example was parsed in a state with other values
C15_Witness ==
    /\ pc = "returned"
    /\ probe.fn = "parse_response"
    /\ probe.arg.kind = "block"
    /\ probe.arg.fields =
          [health |-> Written(<<"8", "0">>),
           inventory |-> Written(<<"sword", ",", " ", "rope">>),
           karma |-> Written(<<"-", "5">>),
           gamemaster_message |-> Written(<<"You", " ", "proceed.">>),
           image_prompt |-> Written(<<"A dark cave.">>),
           turn_summary |-> Written(<<"Entered cave.">>)]
    /\ state.health = 100 /\ state.karma = 10
    /\ probe.result[1] =
          [health |-> 80,
           inventory |-> << <<"sword">>, <<"rope">> >>,
           karma |-> -5,
           gamemaster_message |-> <<"You", " ", "proceed.">>,
           image_prompt |-> <<"A dark cave.">>,
           turn_summary |-> <<"Entered cave.">>]

\* the items that each sample inventory text stands for: comma-separated
\* tokens without bracket, quote and backslash characters, trimmed, the
\* empty ones dropped, later repeats dropped
ExpectedItems(text) ==
    CASE text = <<"sword", ",", " ", "rope">> ->
            << <<"sword">>, <<"rope">> >>
      [] text = <<"rope", ",", " ", "Rope", ",", " ", "rope">> ->
            << <<"rope">>, <<"Rope">> >>
      [] text = <<"[", "'", "sword", "'", ",", " ", "'", "rope", "'", "]">> ->
            << <<"sword">>, <<"rope">> >>
      [] text = <<"thief", "'", "s", " ", "dagger", ",", " ", "rope">> ->
            << <<"thief", "s", " ", "dagger">>, <<"rope">> >>
      [] text = <<"old", " ", "map", ",", " ", "Rope">> ->
            << <<"old", " ", "map">>, <<"Rope">> >>
      [] text = <<"sword", ",", ",", " ", ",", "\"", "\"", ",", " ",
                  "old", " ", "map", " ">> ->
            << <<"sword">>, <<"old", " ", "map">> >>

\* the pattern of health, \d+ after the label, does not match
HealthPatternFails(field) ==
    ~field.present \/ field.text = <<>> \/ field.text[1] \notin Digit

\* the pattern of karma, -?\d+ after the label, does not match
KarmaPatternFails(field) ==
    \/ ~field.present
    \/ field.text = <<>>
    \/ /\ field.text[1] \notin Digit
       /\ ~(Len(field.text) > 1 /\ field.text[1] = "-"
               /\ field.text[2] \in Digit)

\* C16: when the block is present and the pattern of a field does not
\* match, that field takes its default from the current state (health,
\* karma and inventory of the current state, the fixed apology for
\* gamemaster_message, "A mysterious scene" for image_prompt, the prior
\* turn_summary or "The adventure begins..."), and every field whose
\* pattern matched keeps its parsed value.
C16_PerFieldFallback ==
    (pc = "returned" /\ probe.fn = "parse_response"
        /\ probe.arg.kind = "block") =>
        LET fields == probe.arg.fields
            res == probe.result[1]
        IN  /\ HealthPatternFails(fields.health) => res.health = state.health
            /\ \A H \in {0, 80, 100, 250} :
                  fields.health = Written(str(H)) =>
                      res.health = clamp(H, 0, 100)
            /\ KarmaPatternFails(fields.karma) => res.karma = state.karma
            /\ \A K \in {-300, -100, -5, 100} :
                  fields.karma = Written(str(K)) =>
                      res.karma = clamp(K, -100, 100)
            /\ ~fields.inventory.present => res.inventory = state.inventory
            /\ fields.inventory.present =>
                  res.inventory = ExpectedItems(fields.inventory.text)
            /\ res.gamemaster_message =
                  IF fields.gamemaster_message.present
                  THEN fields.gamemaster_message.text
                  ELSE <<"I'm having trouble understanding what happened. Please try again.">>
            /\ res.image_prompt =
                  IF fields.image_prompt.present
                  THEN fields.image_prompt.text
                  ELSE <<"A mysterious scene">>
            /\ res.turn_summary =
                  IF fields.turn_summary.present
                  THEN fields.turn_summary.text
                  ELSE IF state.turn_summary # <<>> THEN state.turn_summary
                  ELSE <<"The adventure begins...">>

\* C17: when the block is present and the value of health or of karma in it
\* is not a number, parse_response returns health, karma and inventory all
\* equal to the values of the state before the turn.
C17_NumericRollback ==
    (pc = "returned" /\ probe.fn = "parse_response"
        /\ probe.arg.kind = "block"
        /\ (\/ probe.arg.fields.health = Written(<<"a", "b", "c">>)
            \/ probe.arg.fields.karma = Written(<<"g", "o", "o", "d">>))) =>
        /\ probe.result[1].health = state.health
        /\ probe.result[1].karma = state.karma
        /\ probe.result[1].inventory = state.inventory

\* C18: the parsed inventory is the comma-separated tokens of the inventory
\* text without bracket, quote and backslash characters, each trimmed, the
\* empty ones dropped and repeats dropped case-sensitively in first-seen
\* order; "rope, Rope, rope" gives ["rope", "Rope"].
C18_InventoryCleanup ==
    (pc = "returned" /\ probe.fn = "parse_response"
        /\ probe.arg.kind = "block"
        /\ probe.arg.fields.inventory.present) =>
        /\ probe.result[1].inventory =
              ExpectedItems(probe.arg.fields.inventory.text)
        /\ probe.arg.fields.inventory.text =
              <<"rope", ",", " ", "Rope", ",", " ", "rope">> =>
                probe.result[1].inventory = << <<"rope">>, <<"Rope">> >>

\* the inventory text "rope, Rope, rope" was parsed
C18_Witness ==
    /\ pc = "returned"
    /\ probe.fn = "parse_response"
    /\ probe.arg.kind = "block"
    /\ probe.arg.fields.inventory =
          Written(<<"rope", ",", " ", "Rope", ",", " ", "rope">>)
    /\ probe.result[1].inventory = << <<"rope">>, <<"Rope">> >>

\* C19: should_add_turbulence(turn) is False for every turn < 2; for
\* turn >= 2 it fires with chance 0.10 when turn <= 5, 0.20 when
\* 6 <= turn <= 10 and 0.30 when turn > 10.  The pipeline passes the turn
\* counter before it is incremented, so no hazard is injected in the first
\* two processed turns of a life.
C19_HazardGating ==
    /\ (pc = "returned" /\ probe.fn = "should_add_turbulence") =>
          LET turn == probe.arg[1]
              draw == probe.arg[2]
              fires == probe.result[1]
          IN  /\ turn < 2 => ~fires
              /\ (2 <= turn /\ turn <= 5) => (fires <=> draw < 10)
              /\ (6 <= turn /\ turn <= 10) => (fires <=> draw < 20)
              /\ turn > 10 => (fires <=> draw < 30)
    /\ pc \in {"lethality", "event_description"} => state.turn >= 2
    /\ (pc = "turn_response" /\ frame.turbulence_result.present) =>
          state.turn >= 2
    /\ (pc \in {"restore", "death_check"}
          /\ frame.turbulence_result.present) => state.turn >= 3

\* a hazard is being injected in the third processed turn of a life
C19_Witness ==
    /\ pc = "event_description"
    /\ state.turn = 2
    /\ frame.turbulence_result.is_lethal

\* C20: at most one image-generation worker runs at any time: no image request
\* is launched while an earlier one has not completed, whatever the order of
\* turns, deaths with reincarnation and worker completions
C20_AtMostOneWorker ==
    running_workers(images) <= 1

\* a step of a worker thread: one leaves generate_image or returns
WorkerStep ==
    \/ images'.generating < images.generating
    \/ images'.finishing < images.finishing

\* the gameplay fields of GameState
GameplayFields(st) ==
    [key \in DOMAIN st \ {"current_image"} |-> st[key]]

\* C21: a step of the image worker changes nothing but the scene image and
\* the loading and generating flags: it leaves the message history alone, and
\* the gameplay fields of GameState change in steps of the foreground only
C21_WorkerSharesOnlyImage ==
    [][WorkerStep =>
          /\ ui_messages' = ui_messages
          /\ GameplayFields(state') = GameplayFields(state)]_vars

\* the positions inside _start_new_situation and _process_turn
ProcessingTurn ==
    {"start_new_situation", "initial_situation", "extract_items",
     "eval_health", "eval_karma", "narrative", "lethality",
     "event_description", "turn_response", "restore", "death_check"}

\* C22: the first submitted text creates the GameState with that name and
\* starts the first life; GameState is created once; no turn is processed
\* before the name is entered; a later submitted text starts one turn, and
\* only while no turn is under way; the processing of a turn or of a life
\* start, a death with reincarnation included, ends nowhere but in awaiting
\* the next action.
C22_SessionStateMachine ==
    [][/\ (pc = "AwaitingName" /\ pc' # "AwaitingName" /\ pc' # "Quit") =>
             /\ state = NoState
             /\ state' = GameState(state'.name)
             /\ pc' = "start_new_situation"
       /\ state # NoState => state'.name = state.name
       /\ state = NoState =>
             pc' \in {"AwaitingName", "start_new_situation", "Quit"}
       /\ pc' = "eval_health" =>
             /\ pc = "AwaitingAction"
             /\ state'.last_player_message \in PlayerActions
       /\ pc \in ProcessingTurn => pc' \in ProcessingTurn \cup {"AwaitingAction"}
      ]_vars

\* the seven bands of karma
KarmaBand(karma) ==
    CASE karma > 75 -> "VERY_POSITIVE"
      [] 35 < karma /\ karma <= 75 -> "POSITIVE"
      [] 0 < karma /\ karma <= 35 -> "SLIGHTLY_POSITIVE"
      [] karma = 0 -> "NEUTRAL"
      [] -35 <= karma /\ karma < 0 -> "SLIGHTLY_NEGATIVE"
      [] -75 <= karma /\ karma < -35 -> "NEGATIVE"
      [] karma < -75 -> "VERY_NEGATIVE"

\* C23: exactly one of the seven bands holds of every karma in -100..100, and
\* the setting of a new life is taken from the category of the band of the
\* karma the player has when the life starts (karma over 75 VERY_POSITIVE,
\* 36..75 POSITIVE, 1..35 SLIGHTLY_POSITIVE, 0 NEUTRAL, -35..-1
\* SLIGHTLY_NEGATIVE, -75..-36 NEGATIVE, under -75 VERY_NEGATIVE).
C23_KarmaBands ==
    (pc = "initial_situation" /\ probe.arg = "found") =>
        /\ state.karma \in KarmaValues
        /\ state.chosen_setting \in SampleSettings(KarmaBand(state.karma))
        /\ \A other \in {"VERY_POSITIVE", "POSITIVE", "SLIGHTLY_POSITIVE",
                         "NEUTRAL", "SLIGHTLY_NEGATIVE", "NEGATIVE",
                         "VERY_NEGATIVE"} \ {KarmaBand(state.karma)} :
              state.chosen_setting \notin SampleSettings(other)

C23_Witness ==
    /\ pc = "initial_situation"
    /\ probe.arg = "found"
    /\ state.karma = 76
    /\ state.chosen_setting = <<"a realm of ", "VERY_POSITIVE">>

\* C24: when a life has started, chosen_setting is one setting of the
\* category of the karma band or the fallback "Crossroads Inn"; it is the
\* fallback whenever the catalog cannot be read, has no such category, or
\* lists no setting under it; it is never unset.
C24_CatalogFallback ==
    pc = "initial_situation" =>
        /\ state.chosen_setting \in
              SampleSettings(karma_category(state.karma))
                 \cup {<<"Crossroads Inn">>}
        /\ probe.arg # "found" => state.chosen_setting = <<"Crossroads Inn">>

\* C25: when an image worker ends, whether generate_image gave an image, gave
\* nothing or raised, ui.is_loading_image and is_generating_image are both
\* cleared; a worker that got no image has told the player so with a
\* "Failed ..." or "Error ..." notice; and the worker never holds the turn
\* pipeline: no position of the foreground changes in a worker's step.
C25_ImageFailureRecovered ==
    [][/\ images'.finishing < images.finishing =>
             /\ ~images'.is_loading_image
             /\ ~images'.is_generating_image
       /\ images'.generating < images.generating =>
             /\ ui_messages' # <<>>
             /\ \/ /\ ui_messages'[Len(ui_messages')].text =
                         <<"Scene image updated.">>
                   /\ images'.ui_current_image = "image"
                \/ ui_messages'[Len(ui_messages')].text \in
                      {<<"Failed to generate scene image.">>,
                       <<"Error generating scene image.">>}
       /\ WorkerStep => pc' = pc
      ]_vars

\* C26: each free-text field of the block is read from its own line: the
\* value is the text between the label and the end of that line, so a line
\* with nothing (or blanks) after the label gives an empty value, an empty
\* inventory for ***inventory:, and never text of the line that follows.
C26_OwnLineOnly ==
    (pc = "returned" /\ probe.fn = "parse_response"
        /\ probe.arg.kind = "lines") =>
        LET fields == probe.arg.fields
            res == probe.result[1]
        IN  /\ res.gamemaster_message = strip(fields.gamemaster_message.text)
            /\ res.image_prompt = strip(fields.image_prompt.text)
            /\ res.turn_summary = strip(fields.turn_summary.text)
            /\ res.inventory =
                  IF fields.inventory.text \in BlankTexts THEN <<>>
                  ELSE << <<"sword">>, <<"rope">> >>

\* the health and karma a turn ends with and whether it ends the life, from
\* the results of the two evaluators alone
TurnOutcome(fr) ==
    LET health == calculate_final_health(fr.old_health, fr.health_change)
        dies == health <= 0 \/ fr.is_fatal
    IN  [dies |-> dies,
         health |-> IF dies THEN 0 ELSE health,
         karma |-> calculate_final_karma(fr.old_karma, fr.karma_change)]

\* C27: the hazard is prompt context only. The steps that decide on a hazard,
\* ask for its lethality and describe it change no field of GameState; and
\* the health and karma a turn ends with and the decision to die are those of
\* TurnOutcome, the same whether the turn had no hazard, a hazard that is not
\* lethal or a lethal one: a lethal hazard alone never ends the life.
C27_HazardIsContextOnly ==
    [][/\ pc \in {"narrative", "lethality", "event_description"} =>
             state' = state
       /\ pc = "death_check" =>
             /\ (pc' = "start_new_situation") = TurnOutcome(frame).dies
             /\ (pc' = "AwaitingAction") = ~TurnOutcome(frame).dies
             /\ state'.health = TurnOutcome(frame).health
             /\ state'.karma = TurnOutcome(frame).karma
      ]_vars

\* a turn with a lethal hazard is at its death check and the player lives on
C27_Witness ==
    /\ pc = "death_check"
    /\ frame.turbulence_result.present
    /\ frame.turbulence_result.is_lethal
    /\ ~TurnOutcome(frame).dies
    /\ state.health > 0

\* C28: whenever the game awaits a player action, after the name was entered
\* and after every completed turn, health is in 1..100. Health 0 is found
\* only where a life start or a turn is being processed (or was cut short):
\* a fatal flag comes with the delta -100, so the health is 0 already at the
\* death check, and every death is followed by the reset to 100 before the
\* game awaits an action again.
C28_AliveWhenAwaiting ==
    /\ pc = "AwaitingAction" => state.health \in 1..100
    /\ (state # NoState /\ state.health = 0) =>
          pc \in ProcessingTurn \cup {"Crashed"}
    /\ (pc \in {"eval_karma", "narrative", "lethality", "event_description",
                "turn_response", "restore", "death_check"}
          /\ frame.is_fatal) =>
          frame.health_change = -100
    /\ (pc = "death_check" /\ frame.is_fatal) => state.health = 0
    /\ pc \in {"initial_situation", "extract_items"} => state.health = 100

\* a life that followed a death awaits its first action with full health
C28_Witness ==
    /\ pc = "AwaitingAction"
    /\ state.turn = 0
    /\ state.karma # 0
    /\ state.health = 100

\* the first category, in the order DIALOGUE, ACTION, EXPLORATION, ITEM, of
\* which the lower-cased sample action contains a keyword; "random" when it
\* contains none
FirstCategory(action) ==
    CASE action = <<"attack", " ", "the", " ", "guard">> -> "ACTION"
      [] action = <<"talk", " ", "then", " ", "attack">> -> "DIALOGUE"
      [] action = <<"attack", " ", "then", " ", "talk">> -> "DIALOGUE"
      [] action = <<"run", " ", "and", " ", "look">> -> "ACTION"
      [] action = <<"look", " ", "and", " ", "take">> -> "EXPLORATION"
      [] action = <<"take", " ", "the", " ", "rope">> -> "ITEM"
      [] action = <<"go", " ", "and", " ", "run">> -> "ACTION"
      [] action = <<"T", "ask", " ", "done">> -> "DIALOGUE"
      [] action = <<"for", "go", "tten">> -> "EXPLORATION"
      [] action = <<"Attack">> -> "ACTION"
      [] action = <<"wear", " ", "cloak">> -> "ITEM"
      [] action = <<"give", " ", "and", " ", "open">> -> "EXPLORATION"
      [] OTHER -> "random"

LethalChanceAsStated(res) ==
    /\ res.lethal_chance = 640 - ((state.karma + 100) * 600) \div 200
    /\ state.karma = -100 => res.lethal_chance = 640
    /\ state.karma = 100 => res.lethal_chance = 40
    /\ res.lethal_chance \in 40..640
    /\ \A karma \in KarmaValues :
          karma > state.karma => lethal_chance(karma) < res.lethal_chance

\* C30 as stated: for every karma in -100..100 the lethal chance is
\* 0.80 - ((karma + 100) / 200) * 0.75: 0.80 at -100, 0.05 at 100, strictly
\* decreasing, within [0.05, 0.80]; it is advisory: is_lethal is TRUE exactly
\* when the trimmed reply is "YES".
C30_LethalChance ==
    (pc = "returned" /\ probe.fn = "generate_turbulence_event") =>
        /\ LethalChanceAsStated(probe.result[1])
        /\ probe.result[1].is_lethal = (strip(probe.arg.content) = <<"YES">>)

\* C30, amended: the lethal chance is as stated, and is_lethal is TRUE exactly
\* when the trimmed reply is "YES" in any letter case ("yes" and "Yes"
\* count as well), whatever the lethal chance.
C30_LethalChanceAnyCase ==
    (pc = "returned" /\ probe.fn = "generate_turbulence_event") =>
        /\ LethalChanceAsStated(probe.result[1])
        /\ probe.result[1].is_lethal =
              (strip(probe.arg.content) \in {<<"YES">>, <<"yes">>, <<"Yes">>})

\* at karma 100, where the chance is lowest, the reply "yes" made the hazard
\* lethal
C30_Witness ==
    /\ pc = "returned"
    /\ probe.fn = "generate_turbulence_event"
    /\ state.karma = 100
    /\ probe.arg.content = <<"yes">>
    /\ probe.result[1].lethal_chance = 40
    /\ probe.result[1].is_lethal

====
